---- MODULE Spec2Model ----
(***************************************************************************)
(* A model of the nepher-subnet validator core: the HTTP request layer     *)
(* with its retry policy (nepher_core/api/client.py), the reward phase     *)
(* (validator/reward/weight_setter.py), the evaluation orchestrator and    *)
(* the per-agent pipeline (validator/evaluation) and the top-level control *)
(* loop (validator/main.py).                                               *)
(*                                                                         *)
(* Each component has its own specification over the shared variables:     *)
(*   SpecRequest  TournamentAPI._request under the tenacity retry policy   *)
(*   SpecReward   WeightSetter.run_reward / _get_winner_uid / _set_weights *)
(*   SpecEval     EvaluationOrchestrator.run_evaluation_loop and           *)
(*                AgentEvaluator.evaluate                                  *)
(*   SpecMain     ValidatorOrchestrator._main_loop                         *)
(***************************************************************************)
EXTENDS Integers, Sequences, FiniteSets, TLC

VARIABLES
    \* ---- request layer -------------------------------------------------
    rqPc,          \* "idle" | "attempt" | "wait" | "returned" | "raised"
    rqExpectJson,  \* the expect_json flag of the call
    rqLog,         \* what each attempt met, in order
    rqResult,      \* the response returned or the exception surfaced
    rqWaits,       \* the waits slept between attempts, in order
    rqAttemptExc,  \* the exception the last attempt raised, with its status_code
    \* ---- reward phase --------------------------------------------------
    rwPc,          \* position inside WeightSetter.run_reward
    rwConfig,      \* config.retry: weight_setting_max_attempts, ..._initial_delay
    rwMetagraph,   \* metagraph.hotkeys of the snapshot, UID i at position i+1
    rwWinnerResp,  \* what api.get_winner_hotkey answered
    rwWinnerUid,   \* winner_uid as computed by _get_winner_uid
    rwCall,        \* the running _set_weights call: target_uid, attempt, delay
    rwPublishes,   \* every subtensor.set_weights call made, in order
    rwSleeps,      \* every asyncio.sleep(delay) of the retry loop, in order
    rwLog,         \* the log lines that tell the outcome of _set_weights
    rwBackendPeriod, \* the period the backend would report for a fresh fetch
    \* ---- evaluation orchestrator and per-agent pipeline ----------------
    evPc,          \* position inside run_evaluation_loop / evaluate
    evPhase,       \* the phase argument of run_evaluation_loop
    evListMode,    \* "backend": the list endpoint answers from its ledger;
                   \* "fixed": a stub answers every call with evFixedList
    evFixedList,   \* the fixed pending-list response of a stub
    evTaskConfig,  \* config.task_config is loaded
    evBatch,       \* response.agents of the running pass
    evIdx,         \* index in evBatch of the agent of the for loop
    evPass,        \* number of _process_pending_agents calls started
    evCounts,      \* _evaluated_count and _failed_count
    evErr,         \* the exception in flight out of evaluate, if any
    evFault,       \* the step of the running pipeline that failed, if any
    evCleanupFault, \* what failed inside _cleanup of the running pipeline
    beDone,        \* backend: evaluations recorded (agent, validator, phase)
    beMarker,      \* backend: the agent marked in progress for this validator
    fsFiles,       \* scratch artifacts present on the validator's disk
    evAcceptedIn,  \* per agent: the pass in which a submission for it was
                   \* accepted (0: none yet) and its kind (result or failed)
    evResubmitted, \* the agents, with the kind of their accepted submission,
                   \* for which a submission was started in a later pass
    evQuiet,       \* a result submission has met a quiet-zone conflict
    evAfterQuiet,  \* the first thing the orchestrator went on to do after that
    evEnded,       \* how run_evaluation_loop ended
    evMessage,     \* the message of the exception in evErr
    evFatalSeen,   \* a non-recoverable error was handled in the running pass
    evUploadSent,  \* the submissions of the agent being handled that reached the submit endpoint
    evCheck,       \* the last answer of the period predicate and what it rested on
    evFinished,    \* the number of evaluate calls that have returned or raised
    \* ---- top-level control loop ----------------------------------------
    mnPc,          \* position inside _main_loop / _handle_period
    mnMode,        \* config.mode: "gpu" or "cpu"
    mnTournament,  \* the tournament fetched by the running iteration
    mnNow,         \* current_time of the running iteration
    mnPeriod,      \* the period determined by the running iteration
    mnSetupComplete,       \* ValidatorStateManager._setup_complete
    mnCurrentTournamentId, \* ValidatorStateManager._current_tournament_id
    mnSleep,       \* the interval of the last sleep
    mnLastError,   \* the exception caught by the running iteration
    mnClassifier,  \* where the periods come from: "get_current_period" or "given"
    mnTaskConfig,  \* config.task_config is loaded
    mnPhaseArg,    \* the phase argument of the running _run_evaluation
    mnListPhase,   \* the phase the running iteration asked the pending list for
    mnCounted,     \* the tournaments whose agents the running totals count
    mnPrevId,      \* the tournament identity observed before the current one
    mnDidReset,    \* the running iteration reset the state on a tournament change
    mnQuietPending,\* a quiet zone was handled and run_setup has not succeeded since
    mnBurnTarget,  \* the UID the burn of the running iteration published to
    \* ---- period classifier ---------------------------------------------
    clPc,          \* "idle" | "call" | "returned" | "raised"
    clTournament,  \* the tournament argument (or NoTournament)
    clNow,         \* the current_time argument
    clResult,      \* the period returned
    \* ---- result submission (verify, then upload) ------------------------
    sbPc,          \* "idle" | "verify" | "upload" | "returned" | "raised"
    sbKind,        \* "result" (submit_evaluation) | "failed" (submit_failed_evaluation)
    sbCalls,       \* the submissions started so far
    sbIssued,      \* backend: the number of upload tokens issued (tokens 1..sbIssued)
    sbToken,       \* the token variable of the running submission
    sbUploads,     \* the requests received by the submit endpoint, in order
    \* ---- two validator processes working on one tournament --------------
    flPc,          \* per validator: "off" | "fetch" | "sleep" | "loop" | "await" | "delay"
    flBatch,       \* per validator: the agents of the response being processed
    flIdx,         \* per validator: the position of the for loop in the batch
    flStage,       \* per validator and agent: "none" | "pipeline" | "cleanup"
    flDone         \* backend: per validator, the agents with a recorded evaluation

rqVars == <<rqPc, rqExpectJson, rqLog, rqResult, rqWaits, rqAttemptExc>>

rwVars == <<rwPc, rwConfig, rwMetagraph, rwWinnerResp, rwWinnerUid, rwCall,
            rwPublishes, rwSleeps, rwLog, rwBackendPeriod>>

evStatic == <<evPhase, evListMode, evFixedList, evTaskConfig>>

evVars == <<evPc, evStatic, evBatch, evIdx, evPass, evCounts, evErr, evFault,
            evCleanupFault, beDone, beMarker, fsFiles, evAcceptedIn, evResubmitted,
            evQuiet, evAfterQuiet, evEnded,
            evMessage, evFatalSeen, evUploadSent, evCheck,
            evFinished>>

mnStatic == <<mnMode, mnClassifier>>

mnIter == <<mnTournament, mnNow, mnPeriod, mnPrevId, mnDidReset>>

mnState == <<mnSetupComplete, mnCurrentTournamentId>>

mnVars == <<mnPc, mnStatic, mnIter, mnState, mnSleep, mnLastError, mnTaskConfig,
            mnPhaseArg, mnListPhase, mnCounted, mnQuietPending, mnBurnTarget>>

clVars == <<clPc, clTournament, clNow, clResult>>

sbVars == <<sbPc, sbKind, sbCalls, sbIssued, sbToken, sbUploads>>

flVars == <<flPc, flBatch, flIdx, flStage, flDone>>

vars == <<rqVars, rwVars, evVars, mnVars, clVars, sbVars, flVars>>

NoResult == [kind |-> "none"]

Raised(class) == [kind |-> "exception", class |-> class]

(***************************************************************************)
(* The reward phase: WeightSetter.                                         *)
(***************************************************************************)

\* WeightSetter.BURN_UID
BURN_UID == 0

\* RetryConfig.weight_setting_initial_delay (default)
weight_setting_initial_delay == 5

\* The largest weight_setting_max_attempts the model configures.
MaxWeightAttempts == 3

\* The largest metagraph the model draws.
MaxUids == 2

Hotkeys == {"hkA", "hkB", "hkC"}

\* winner_hotkey values that Python takes for false: None and "".
NoHotkey == "<None>"

EmptyHotkey == ""

Falsy(hotkey) == hotkey = NoHotkey \/ hotkey = EmptyHotkey

Range(seq) == {seq[i] : i \in 1..Len(seq)}

\* The snapshots: a metagraph lists every hotkey once and always has UID 0.
Metagraphs ==
    {m \in UNION {[1..n -> Hotkeys] : n \in 1..MaxUids} :
        \A i, j \in 1..Len(m) : i # j => m[i] # m[j]}

\* WinnerInfo as returned by get_winner_hotkey, or the call raising.
WinnerResponses ==
    [kind : {"info"}, winner_approved : BOOLEAN,
     winner_hotkey : Hotkeys \cup {NoHotkey, EmptyHotkey}]
    \cup {[kind |-> "error"]}

NoUid == -1

\* metagraph.hotkeys.index(hotkey) searched from position i; NoUid for the
\* ValueError that find_uid_for_hotkey turns into None.
RECURSIVE IndexFrom(_, _, _)
IndexFrom(hotkeys, hotkey, i) ==
    IF i > Len(hotkeys) THEN NoUid
    ELSE IF hotkeys[i] = hotkey THEN i - 1
    ELSE IndexFrom(hotkeys, hotkey, i + 1)

find_uid_for_hotkey(hotkeys, hotkey) == IndexFrom(hotkeys, hotkey, 1)

\* A variant that trusts the hotkey without looking at winner_approved.
GetWinnerUidUnapproved(resp, hotkeys) ==
    IF resp.kind = "error" THEN BURN_UID
    ELSE IF Falsy(resp.winner_hotkey) THEN BURN_UID
    ELSE IF find_uid_for_hotkey(hotkeys, resp.winner_hotkey) = NoUid THEN BURN_UID
    ELSE find_uid_for_hotkey(hotkeys, resp.winner_hotkey)

\* WeightSetter._get_winner_uid
_get_winner_uid(resp, hotkeys) ==
    IF resp.kind = "error" THEN BURN_UID
    ELSE IF ~resp.winner_approved \/ Falsy(resp.winner_hotkey) THEN BURN_UID
    ELSE IF find_uid_for_hotkey(hotkeys, resp.winner_hotkey) = NoUid THEN BURN_UID
    ELSE find_uid_for_hotkey(hotkeys, resp.winner_hotkey)

\* The value of a call expression: an async function called without await
\* yields a coroutine object, whose result only an await would produce.
Coroutine(result) == [kind |-> "coroutine", result |-> result]

\* Python truthiness of the value a while statement tests.
Truthy(v) == IF v.kind = "bool" THEN v.val ELSE TRUE

\* ValidatorOrchestrator._run_reward.is_reward_period, an async function:
\* calling it gives a coroutine that would compare the fresh period.
is_reward_period_fn(freshPeriod) == Coroutine(freshPeriod = "REWARD")

NoCall == [n |-> 0, target_uid |-> BURN_UID, attempt |-> 0, delay |-> 0]

\* What one subtensor.set_weights call can do: report success, report
\* failure as (False, message), or raise.
PublishOutcomes == {"ok", "false", "raise"}

RewardIdle ==
    /\ rwPc = "idle"
    /\ rwConfig = [weight_setting_max_attempts |-> 1,
                   weight_setting_initial_delay |-> weight_setting_initial_delay]
    /\ rwMetagraph = <<"hkA">>
    /\ rwWinnerResp = [kind |-> "error"]
    /\ rwWinnerUid = NoUid
    /\ rwCall = NoCall
    /\ rwPublishes = <<>>
    /\ rwSleeps = <<>>
    /\ rwLog = <<>>
    /\ rwBackendPeriod = "REWARD"

RewardInit ==
    /\ rwPc = "run_reward"
    /\ rwConfig \in [weight_setting_max_attempts : 1..MaxWeightAttempts,
                     weight_setting_initial_delay : {weight_setting_initial_delay}]
    /\ rwMetagraph \in Metagraphs
    /\ rwWinnerResp \in WinnerResponses
    /\ rwWinnerUid = NoUid
    /\ rwCall = NoCall
    /\ rwPublishes = <<>>
    /\ rwSleeps = <<>>
    /\ rwLog = <<>>
    /\ rwBackendPeriod = "REWARD"

\* Entering _set_weights(target_uid, metagraph) as the n-th call.
EnterSetWeights(n, target_uid) ==
    /\ rwPc' = "set_weights"
    /\ rwCall' = [n |-> n, target_uid |-> target_uid, attempt |-> 1,
                  delay |-> rwConfig.weight_setting_initial_delay]

\* _set_weights returns to run_reward.
ReturnFromSetWeights ==
    rwPc' = IF rwCall.n = 1 THEN "check" ELSE "done"

\* run_reward up to its first _set_weights: the winner is resolved.
RewardGetWinner ==
    /\ rwPc = "run_reward"
    /\ rwWinnerUid' = _get_winner_uid(rwWinnerResp, rwMetagraph)
    /\ EnterSetWeights(1, rwWinnerUid')
    /\ UNCHANGED <<rwConfig, rwMetagraph, rwWinnerResp, rwPublishes, rwSleeps,
                   rwLog, rwBackendPeriod>>
    /\ UNCHANGED <<rqVars, evVars, mnVars, clVars, sbVars, flVars>>

\* A backoff that keeps the delay.
NextDelayConstant(delay) == delay

\* "delay *= 2" after the sleep of a failed attempt.
NextDelay(delay) == delay * 2

\* One pass of the retry loop of _set_weights.
SetWeightsAttempt ==
    /\ rwPc = "set_weights"
    /\ \E outcome \in PublishOutcomes :
        /\ rwPublishes' = Append(rwPublishes,
               [call |-> rwCall.n, uid |-> rwCall.target_uid,
                fallback |-> FALSE, outcome |-> outcome])
        /\ IF outcome = "ok"
           THEN /\ rwLog' = Append(rwLog, [call |-> rwCall.n, msg |-> "weights_set"])
                /\ ReturnFromSetWeights
                /\ UNCHANGED <<rwCall, rwSleeps>>
           ELSE IF rwCall.attempt < rwConfig.weight_setting_max_attempts
           THEN /\ rwPc' = "retry_sleep"
                /\ rwSleeps' = Append(rwSleeps, rwCall.delay)
                /\ rwCall' = [rwCall EXCEPT !.attempt = @ + 1, !.delay = NextDelay(@)]
                /\ UNCHANGED rwLog
           ELSE /\ rwLog' = Append(rwLog, [call |-> rwCall.n, msg |-> "failed_after_attempts"])
                /\ IF rwCall.target_uid # BURN_UID
                   THEN rwPc' = "fallback"
                   ELSE ReturnFromSetWeights
                /\ UNCHANGED <<rwCall, rwSleeps>>
    /\ UNCHANGED <<rwConfig, rwMetagraph, rwWinnerResp, rwWinnerUid, rwBackendPeriod>>
    /\ UNCHANGED <<rqVars, evVars, mnVars, clVars, sbVars, flVars>>

\* asyncio.sleep(delay) of the retry loop is over.
SetWeightsRetry ==
    /\ rwPc = "retry_sleep"
    /\ rwPc' = "set_weights"
    /\ UNCHANGED <<rwConfig, rwMetagraph, rwWinnerResp, rwWinnerUid, rwCall,
                   rwPublishes, rwSleeps, rwLog, rwBackendPeriod>>
    /\ UNCHANGED <<rqVars, evVars, mnVars, clVars, sbVars, flVars>>

\* The fallback burn of _set_weights: the result of set_weights is not
\* looked at, only an exception is caught and logged.
SetWeightsFallback ==
    /\ rwPc = "fallback"
    /\ \E outcome \in PublishOutcomes :
        /\ rwPublishes' = Append(rwPublishes,
               [call |-> rwCall.n, uid |-> BURN_UID,
                fallback |-> TRUE, outcome |-> outcome])
        /\ rwLog' = Append(rwLog,
               [call |-> rwCall.n,
                msg |-> IF outcome = "raise" THEN "fallback_failed" ELSE "fallback_burned"])
    /\ ReturnFromSetWeights
    /\ UNCHANGED <<rwConfig, rwMetagraph, rwWinnerResp, rwWinnerUid, rwCall,
                   rwSleeps, rwBackendPeriod>>
    /\ UNCHANGED <<rqVars, evVars, mnVars, clVars, sbVars, flVars>>

\* The test of "while is_reward_period_fn():" and what follows it.
RewardCheck ==
    /\ rwPc = "check"
    /\ IF Truthy(is_reward_period_fn(rwBackendPeriod))
       THEN /\ rwPc' = "sleep"
            /\ UNCHANGED rwCall
       ELSE EnterSetWeights(2, BURN_UID)
    /\ UNCHANGED <<rwConfig, rwMetagraph, rwWinnerResp, rwWinnerUid, rwPublishes,
                   rwSleeps, rwLog, rwBackendPeriod>>
    /\ UNCHANGED <<rqVars, evVars, mnVars, clVars, sbVars, flVars>>

\* asyncio.sleep(60) of the idle loop is over.
RewardSleepDone ==
    /\ rwPc = "sleep"
    /\ rwPc' = "check"
    /\ UNCHANGED <<rwConfig, rwMetagraph, rwWinnerResp, rwWinnerUid, rwCall,
                   rwPublishes, rwSleeps, rwLog, rwBackendPeriod>>
    /\ UNCHANGED <<rqVars, evVars, mnVars, clVars, sbVars, flVars>>

\* The backend: the reward period ends.
BackendRewardEnds ==
    /\ rwBackendPeriod = "REWARD"
    /\ rwPc # "idle"
    /\ rwBackendPeriod' = "COMPLETED"
    /\ UNCHANGED <<rwPc, rwConfig, rwMetagraph, rwWinnerResp, rwWinnerUid, rwCall,
                   rwPublishes, rwSleeps, rwLog>>
    /\ UNCHANGED <<rqVars, evVars, mnVars, clVars, sbVars, flVars>>

(***************************************************************************)
(* The evaluation orchestrator and the per-agent pipeline.                 *)
(***************************************************************************)

\* The number of agents of the tournament.
NumAgents == 2

\* The largest number of _process_pending_agents passes of one loop.
MaxPasses == 2

Agents == 1..NumAgents

NoAgent == 0

validator_hotkey == "validatorHk"

other_hotkey == "otherHk"

Phases == {"public", "private"}

\* The artifacts _cleanup is to remove: the installed task module, the
\* extracted agent tree, evaluation_result.json in the workspace and in the
\* eval repo, and eval_config.yaml.
ScratchFiles == {"module", "registry", "result_ws", "result_cwd", "eval_config"}

ResultFiles == {"result_ws", "result_cwd"}

\* All sequences without repetition over the members of S.
DistinctSeqs(S) ==
    {q \in UNION {[1..n -> S] : n \in 0..Cardinality(S)} :
        \A i, j \in 1..Len(q) : i # j => q[i] # q[j]}

NoError == [class |-> "none", recoverable |-> FALSE]

NotAccepted == [pass |-> 0, kind |-> "none"]

EvaluationError(recoverable) == [class |-> "EvaluationError", recoverable |-> recoverable]

OtherException == [class |-> "Exception", recoverable |-> FALSE]

\* asyncio.TimeoutError, as asyncio.wait_for raises it in run_command_async.
TimeoutError == [class |-> "TimeoutError", recoverable |-> FALSE]

\* The message an exception carries.  asyncio.wait_for raises its
\* TimeoutError without arguments, so that str(e) is the empty string; the
\* other exceptions of the pipeline are built with a message.
NoMessage == "<None>"

EmptyMessage == ""

Str(exc) == IF exc.class = "TimeoutError" THEN EmptyMessage ELSE "reason"

\* QuietZoneError, the error class of a 409 answer.
QuietZoneError == [class |-> "QuietZoneError", recoverable |-> FALSE]

\* What a backend call of the pipeline can meet.
ApiOutcomes == {"ok", "error", "quiet"}

\* The exception a failed backend call raises.
ApiException(outcome) == IF outcome = "quiet" THEN QuietZoneError ELSE OtherException

\* The query of get_pending_agents as the orchestrator sends it.
PendingQueryOtherKey(tournament_id, hotkey, phase) ==
    [tournament_id |-> tournament_id, validator_hotkey |-> other_hotkey, phase |-> phase]

PendingQuery(tournament_id, hotkey, phase) ==
    [tournament_id |-> tournament_id, validator_hotkey |-> hotkey, phase |-> phase]

\* The backend's list endpoint: the agents for which the asking validator
\* has no recorded evaluation in the asked phase and none in progress.
Unevaluated(query) ==
    {a \in Agents :
        /\ [agent |-> a, validator |-> query.validator_hotkey, phase |-> query.phase] \notin beDone
        /\ ~(query.validator_hotkey = validator_hotkey /\ beMarker = a)}

\* The responses get_pending_agents can bring back.
PendingResponses ==
    IF evListMode = "fixed"
    THEN {evFixedList}
    ELSE UNION {DistinctSeqs(S) :
                  S \in SUBSET Unevaluated(PendingQuery("t1", validator_hotkey, evPhase))}

\* The except clauses of AgentEvaluator.evaluate: an EvaluationError goes
\* through, anything else becomes a recoverable EvaluationError.
TranslateKeepAll(exc) == exc

Translate(exc) ==
    IF exc.class = "EvaluationError" THEN exc ELSE EvaluationError(TRUE)

\* A handler without the "except Exception" clause: an exception that is
\* no EvaluationError leaves the for loop.
HandlerForNoCatchAll(exc) ==
    IF exc.class = "none" THEN "evaluated"
    ELSE IF exc.class = "EvaluationError" THEN "failed_submit"
    ELSE "reraise"

\* The except clauses of _process_pending_agents around evaluate.
HandlerFor(exc) ==
    IF exc.class = "none" THEN "evaluated"
    ELSE IF exc.class = "QuietZoneError" THEN "reraise"
    ELSE IF exc.class = "EvaluationError" THEN "failed_submit"
    ELSE "failed"

\* No period check has been made yet.
NoCheck == [source |-> "none", answer |-> "none", in_period |-> FALSE]

EvalIdle ==
    /\ evPc = "idle"
    /\ evPhase = "private"
    /\ evListMode = "backend"
    /\ evFixedList = <<>>
    /\ evTaskConfig = TRUE
    /\ evBatch = <<>>
    /\ evIdx = 0
    /\ evPass = 0
    /\ evCounts = [evaluated |-> 0, failed |-> 0]
    /\ evErr = NoError
    /\ evFault = "none"
    /\ evCleanupFault = "none"
    /\ beDone = {}
    /\ beMarker = NoAgent
    /\ fsFiles = {}
    /\ evAcceptedIn = [a \in Agents |-> NotAccepted]
    /\ evResubmitted = {}
    /\ evQuiet = FALSE
    /\ evAfterQuiet = "nothing"
    /\ evEnded = "running"
    /\ evMessage = NoMessage
    /\ evFatalSeen = FALSE
    /\ evUploadSent = {}
    /\ evCheck = NoCheck
    /\ evFinished = 0

\* run_evaluation_loop is entered (burn_callback is not passed by its caller).
EvalInit ==
    /\ evPc = "loop_check"
    /\ evPhase \in Phases
    /\ evListMode \in {"backend", "fixed"}
    /\ evFixedList \in (IF evListMode = "fixed" THEN DistinctSeqs(Agents) ELSE {<<>>})
    /\ evTaskConfig \in BOOLEAN
    /\ evBatch = <<>>
    /\ evIdx = 0
    /\ evPass = 0
    /\ evCounts = [evaluated |-> 0, failed |-> 0]
    /\ evErr = NoError
    /\ evFault = "none"
    /\ evCleanupFault = "none"
    /\ beDone = {}
    /\ beMarker = NoAgent
    /\ fsFiles \in {{}, ScratchFiles}
    /\ evAcceptedIn = [a \in Agents |-> NotAccepted]
    /\ evResubmitted = {}
    /\ evQuiet = FALSE
    /\ evAfterQuiet = "nothing"
    /\ evEnded = "running"
    /\ evMessage = NoMessage
    /\ evFatalSeen = FALSE
    /\ evUploadSent = {}
    /\ evCheck = NoCheck
    /\ evFinished = 0

\* What happened after a quiet-zone conflict of a result submission.
NoteAfterQuiet(tag) ==
    evAfterQuiet' = IF evQuiet /\ evAfterQuiet = "nothing" THEN tag ELSE evAfterQuiet

\* _process_pending_agents up to the for loop: the list is fetched.
FetchPending ==
    /\ evPc = "fetch"
    /\ \E outcome \in ApiOutcomes :
        IF outcome = "ok"
        THEN \E agents \in PendingResponses :
                /\ evBatch' = agents
                /\ evIdx' = IF agents = <<>> THEN 0 ELSE 1
                /\ evPc' = IF agents = <<>> THEN "poll_sleep" ELSE "agent_start"
                /\ UNCHANGED evEnded
        ELSE IF outcome = "quiet"
        THEN /\ evPc' = "loop_done"
             /\ evEnded' = "quiet_zone"
             /\ UNCHANGED <<evBatch, evIdx>>
        ELSE /\ evPc' = "poll_sleep"
             /\ UNCHANGED <<evBatch, evIdx, evEnded>>
    /\ NoteAfterQuiet("fetch")
    /\ evFatalSeen' = FALSE
    /\ UNCHANGED <<evStatic, evPass, evCounts, evErr, evFault, evMessage, evCleanupFault,
                   beDone, beMarker, fsFiles, evAcceptedIn, evResubmitted, evQuiet>>
    /\ UNCHANGED evUploadSent
    /\ UNCHANGED evCheck
    /\ UNCHANGED evFinished
    /\ UNCHANGED <<rqVars, rwVars, mnVars, clVars, sbVars, flVars>>

\* asyncio.sleep(POLL_INTERVAL) is over: back to the while test.
PollSleepDone ==
    /\ evPc = "poll_sleep"
    /\ evPc' = "loop_check"
    /\ UNCHANGED <<evStatic, evBatch, evIdx, evPass, evCounts, evErr, evFault, evMessage,
                   evCleanupFault, beDone, beMarker, fsFiles, evAcceptedIn, evResubmitted, evQuiet,
                   evAfterQuiet, evEnded>>
    /\ UNCHANGED evFatalSeen
    /\ UNCHANGED evUploadSent
    /\ UNCHANGED evCheck
    /\ UNCHANGED evFinished
    /\ UNCHANGED <<rqVars, rwVars, mnVars, clVars, sbVars, flVars>>

\* The steps of evaluate in the order of its body: the six calls of the try
\* block (_run_evaluation ends with _collect_result) and the _cleanup of the
\* finally clause.
PipelineStagesMarkFirst ==
    <<"clean_previous", "mark", "download", "install", "run", "collect", "submit", "cleanup">>

PipelineStages ==
    <<"clean_previous", "download", "mark", "install", "run", "collect", "submit", "cleanup">>

\* The step that follows a step that succeeded.
StageAfter(stage) ==
    PipelineStages[(CHOOSE i \in 1..(Len(PipelineStages) - 1) : PipelineStages[i] = stage) + 1]

\* A pipeline step failed with exc at the named point: evaluate's except
\* clauses translate it and the finally clause runs _cleanup next.
StepFails(point, exc) ==
    /\ evFault' = point
    /\ evErr' = Translate(exc)
    /\ evMessage' = Str(exc)
    /\ evPc' = "cleanup"

\* evaluate is entered for the agent of the for loop: _get_task_module runs
\* before the try statement, so its error leaves evaluate without _cleanup.
AgentStart ==
    /\ evPc = "agent_start"
    /\ IF evTaskConfig
       THEN /\ evPc' = PipelineStages[1]
            /\ evErr' = NoError
            /\ evFault' = "none"
            /\ evMessage' = NoMessage
       ELSE /\ evPc' = "evaluate_done"
            /\ evErr' = EvaluationError(FALSE)
            /\ evFault' = "task_module"
            /\ evMessage' = Str(EvaluationError(FALSE))
    /\ evCleanupFault' = "none"
    /\ NoteAfterQuiet("evaluate")
    /\ UNCHANGED <<evStatic, evBatch, evIdx, evPass, evCounts, beDone, beMarker,
                   fsFiles, evAcceptedIn, evResubmitted, evQuiet, evEnded>>
    /\ UNCHANGED evFatalSeen
    /\ evUploadSent' = {}
    /\ UNCHANGED evCheck
    /\ evFinished' = IF evTaskConfig THEN evFinished ELSE evFinished + 1
    /\ UNCHANGED <<rqVars, rwVars, mnVars, clVars, sbVars, flVars>>

\* _clean_previous_state
CleanPrevious ==
    /\ evPc = "clean_previous"
    /\ \E outcome \in {"ok", "raise"} :
        IF outcome = "ok"
        THEN /\ fsFiles' = fsFiles \ {"module", "registry", "result_ws", "result_cwd"}
             /\ evPc' = StageAfter("clean_previous")
             /\ UNCHANGED <<evErr, evFault, evMessage>>
        ELSE /\ StepFails("clean_previous", OtherException)
             /\ UNCHANGED fsFiles
    /\ UNCHANGED <<evStatic, evBatch, evIdx, evPass, evCounts, evCleanupFault,
                   beDone, beMarker, evAcceptedIn, evResubmitted, evQuiet, evAfterQuiet, evEnded>>
    /\ UNCHANGED evFatalSeen
    /\ UNCHANGED evUploadSent
    /\ UNCHANGED evCheck
    /\ UNCHANGED evFinished
    /\ UNCHANGED <<rqVars, rwVars, mnVars, clVars, sbVars, flVars>>

\* _prepare_agent: download the archive and extract it into the registry.
DownloadExtract ==
    /\ evPc = "download"
    /\ \E outcome \in {"ok", "download_fails", "unzip_fails"} :
        IF outcome = "ok"
        THEN /\ fsFiles' = fsFiles \cup {"registry"}
             /\ evPc' = StageAfter("download")
             /\ UNCHANGED <<evErr, evFault, evMessage>>
        ELSE /\ StepFails("download", OtherException)
             /\ fsFiles' = IF outcome = "unzip_fails"
                           THEN fsFiles \cup {"registry"} ELSE fsFiles
    /\ UNCHANGED <<evStatic, evBatch, evIdx, evPass, evCounts, evCleanupFault,
                   beDone, beMarker, evAcceptedIn, evResubmitted, evQuiet, evAfterQuiet, evEnded>>
    /\ UNCHANGED evFatalSeen
    /\ UNCHANGED evUploadSent
    /\ UNCHANGED evCheck
    /\ UNCHANGED evFinished
    /\ UNCHANGED <<rqVars, rwVars, mnVars, clVars, sbVars, flVars>>

\* api.set_evaluation_in_progress
MarkInProgress ==
    /\ evPc = "mark"
    /\ \E outcome \in ApiOutcomes :
        IF outcome = "ok"
        THEN /\ beMarker' = evBatch[evIdx]
             /\ evPc' = StageAfter("mark")
             /\ UNCHANGED <<evErr, evFault, evMessage>>
        ELSE /\ StepFails("mark", ApiException(outcome))
             /\ UNCHANGED beMarker
    /\ UNCHANGED <<evStatic, evBatch, evIdx, evPass, evCounts, evCleanupFault,
                   beDone, fsFiles, evAcceptedIn, evResubmitted, evQuiet, evAfterQuiet, evEnded>>
    /\ UNCHANGED evFatalSeen
    /\ UNCHANGED evUploadSent
    /\ UNCHANGED evCheck
    /\ UNCHANGED evFinished
    /\ UNCHANGED <<rqVars, rwVars, mnVars, clVars, sbVars, flVars>>

\* _install_agent_module
InstallModule ==
    /\ evPc = "install"
    /\ \E outcome \in {"ok", "source_missing", "pip_fails", "timeout"} :
        IF outcome = "ok"
        THEN /\ fsFiles' = fsFiles \cup {"module"}
             /\ evPc' = StageAfter("install")
             /\ UNCHANGED <<evErr, evFault, evMessage>>
        ELSE /\ StepFails("install",
                    IF outcome = "source_missing" THEN EvaluationError(FALSE)
                    ELSE IF outcome = "pip_fails" THEN EvaluationError(TRUE)
                    ELSE TimeoutError)
             /\ UNCHANGED fsFiles
    /\ UNCHANGED <<evStatic, evBatch, evIdx, evPass, evCounts, evCleanupFault,
                   beDone, beMarker, evAcceptedIn, evResubmitted, evQuiet, evAfterQuiet, evEnded>>
    /\ UNCHANGED evFatalSeen
    /\ UNCHANGED evUploadSent
    /\ UNCHANGED evCheck
    /\ UNCHANGED evFinished
    /\ UNCHANGED <<rqVars, rwVars, mnVars, clVars, sbVars, flVars>>

\* _run_evaluation up to _collect_result: the engine runs under its timeout
\* and may leave evaluation_result.json in either location.
RunEngine ==
    /\ evPc = "run"
    /\ \E outcome \in {"ok", "script_missing", "config_missing", "exit_nonzero", "timeout"} :
        IF outcome \in {"script_missing", "config_missing"}
        THEN /\ StepFails("run_setup", EvaluationError(FALSE))
             /\ UNCHANGED fsFiles
        ELSE \E written \in SUBSET ResultFiles :
                /\ fsFiles' = fsFiles \cup {"eval_config"} \cup written
                /\ IF outcome = "ok"
                   THEN /\ evPc' = StageAfter("run")
                        /\ UNCHANGED <<evErr, evFault, evMessage>>
                   ELSE IF outcome = "exit_nonzero"
                   THEN StepFails("run_exit", EvaluationError(TRUE))
                   ELSE StepFails("run_timeout", TimeoutError)
    /\ UNCHANGED <<evStatic, evBatch, evIdx, evPass, evCounts, evCleanupFault,
                   beDone, beMarker, evAcceptedIn, evResubmitted, evQuiet, evAfterQuiet, evEnded>>
    /\ UNCHANGED evFatalSeen
    /\ UNCHANGED evUploadSent
    /\ UNCHANGED evCheck
    /\ UNCHANGED evFinished
    /\ UNCHANGED <<rqVars, rwVars, mnVars, clVars, sbVars, flVars>>

\* _collect_result
CollectResult ==
    /\ evPc = "collect"
    /\ LET moved == IF "result_ws" \notin fsFiles /\ "result_cwd" \in fsFiles
                    THEN (fsFiles \ {"result_cwd"}) \cup {"result_ws"}
                    ELSE fsFiles
       IN  /\ fsFiles' = moved
           /\ IF "result_ws" \notin moved
              THEN StepFails("result_missing", EvaluationError(TRUE))
              ELSE /\ evPc' = StageAfter("collect")
                   /\ UNCHANGED <<evErr, evFault, evMessage>>
    /\ UNCHANGED <<evStatic, evBatch, evIdx, evPass, evCounts, evCleanupFault,
                   beDone, beMarker, evAcceptedIn, evResubmitted, evQuiet, evAfterQuiet, evEnded>>
    /\ UNCHANGED evFatalSeen
    /\ UNCHANGED evUploadSent
    /\ UNCHANGED evCheck
    /\ UNCHANGED evFinished
    /\ UNCHANGED <<rqVars, rwVars, mnVars, clVars, sbVars, flVars>>

\* The record the backend keeps of an accepted result of this validator.
Recorded(agent) == [agent |-> agent, validator |-> validator_hotkey, phase |-> evPhase]

\* A two-step result submission (verify, then upload with the token): the
\* upload is sent only when verify succeeded.  Gives the exception raised,
\* NoError when both steps succeeded.
SubmissionError(verify, upload) ==
    IF verify # "ok" THEN ApiException(verify)
    ELSE IF upload # "ok" THEN ApiException(upload)
    ELSE NoError

\* The upload request of a submission reaches the submit endpoint when its
\* verify step has returned a token, whatever the upload then answers.
UploadIsSent(verify) == verify = "ok"

\* A submission of the given kind for agent a is started in the running pass.
NoteSubmission(a, kind, accepted) ==
    /\ evResubmitted' = IF evAcceptedIn[a].pass # 0 /\ evAcceptedIn[a].pass < evPass
                        THEN evResubmitted \cup {<<a, evAcceptedIn[a].kind>>}
                        ELSE evResubmitted
    /\ evAcceptedIn' = IF accepted /\ evAcceptedIn[a].pass = 0
                       THEN [evAcceptedIn EXCEPT ![a] = [pass |-> evPass, kind |-> kind]]
                       ELSE evAcceptedIn

\* _submit_results: submit_evaluation for the agent of the running pipeline.
SubmitResults ==
    /\ evPc = "submit"
    /\ \E verify \in ApiOutcomes, upload \in ApiOutcomes :
        LET exc == SubmissionError(verify, upload)
            a == evBatch[evIdx]
        IN  /\ NoteSubmission(a, "result", exc = NoError)
            /\ evUploadSent' = IF UploadIsSent(verify) THEN evUploadSent \cup {"result"}
                               ELSE evUploadSent
            /\ evQuiet' = (evQuiet \/ exc = QuietZoneError)
            /\ IF exc = NoError
               THEN /\ beDone' = beDone \cup {Recorded(a)}
                    /\ evPc' = StageAfter("submit")
                    /\ UNCHANGED <<evErr, evFault, evMessage>>
               ELSE /\ StepFails("submit", exc)
                    /\ UNCHANGED beDone
    /\ NoteAfterQuiet("submit")
    /\ UNCHANGED <<evStatic, evBatch, evIdx, evPass, evCounts, evCleanupFault,
                   beMarker, fsFiles, evEnded>>
    /\ UNCHANGED evFatalSeen
    /\ UNCHANGED evCheck
    /\ UNCHANGED evFinished
    /\ UNCHANGED <<rqVars, rwVars, mnVars, clVars, sbVars, flVars>>

\* The finally clause of evaluate runs _cleanup whatever the try block did.
CleanupOnSuccessOnly(err) == err.class = "none"

CleanupRuns(err) == TRUE

\* What can fail inside _cleanup, given the artifacts present: the
\* uninstall command, the removal of a file or of the agent tree, or the
\* request that clears the marker.
CleanupFaults ==
    {"none", "clear_fails"}
    \cup (IF "module" \in fsFiles THEN {"uninstall_raises"} ELSE {})
    \cup (IF fsFiles \ {"module"} # {} THEN {"remove_raises"} ELSE {})

\* The artifacts left once _cleanup has stopped at the fault.
LeftAfterCleanup(fault) ==
    IF fault = "uninstall_raises" THEN fsFiles
    ELSE IF fault = "remove_raises" THEN fsFiles \ {"module"}
    ELSE {}

\* _cleanup: uninstall, remove the result and config files, remove the agent
\* tree, clear the in-progress marker.  Only the last step is guarded: an
\* exception of an earlier step leaves _cleanup and evaluate.
Cleanup ==
    /\ evPc = "cleanup"
    /\ IF CleanupRuns(evErr)
       THEN \E fault \in CleanupFaults :
               /\ evCleanupFault' = fault
               /\ fsFiles' = LeftAfterCleanup(fault)
               /\ beMarker' = IF fault = "none" THEN NoAgent ELSE beMarker
               /\ evErr' = IF fault \in {"none", "clear_fails"} THEN evErr ELSE OtherException
               /\ evMessage' = IF fault \in {"none", "clear_fails"}
                                THEN evMessage ELSE Str(OtherException)
       ELSE UNCHANGED <<evCleanupFault, fsFiles, beMarker, evErr, evMessage>>
    /\ evPc' = "evaluate_done"
    /\ UNCHANGED <<evStatic, evBatch, evIdx, evPass, evCounts, evFault, beDone,
                   evAcceptedIn, evResubmitted, evQuiet, evAfterQuiet, evEnded>>
    /\ UNCHANGED evFatalSeen
    /\ UNCHANGED evUploadSent
    /\ UNCHANGED evCheck
    /\ evFinished' = evFinished + 1
    /\ UNCHANGED <<rqVars, rwVars, mnVars, clVars, sbVars, flVars>>

\* Counters that leave out the agents of the catch-all clause.
CountsAfterEvaluationErrorsOnly(counts, h) ==
    IF h = "evaluated" THEN [counts EXCEPT !.evaluated = @ + 1]
    ELSE IF h = "failed_submit" THEN [counts EXCEPT !.failed = @ + 1]
    ELSE counts

\* _evaluated_count and _failed_count after the handler h of the try
\* statement around evaluate has run.
CountsAfter(counts, h) ==
    IF h = "evaluated" THEN [counts EXCEPT !.evaluated = @ + 1]
    ELSE IF h = "reraise" THEN counts
    ELSE [counts EXCEPT !.failed = @ + 1]

\* EvaluationOrchestrator.stats
stats(counts) ==
    [evaluated |-> counts.evaluated, failed |-> counts.failed,
     total |-> counts.evaluated + counts.failed]

\* evaluate has returned or raised: the orchestrator's try statement.
HandleOutcome ==
    /\ evPc = "evaluate_done"
    /\ LET h == HandlerFor(evErr)
       IN  /\ evCounts' = CountsAfter(evCounts, h)
           /\ evPc' = IF h = "reraise" THEN "loop_done"
                      ELSE IF h = "failed_submit" THEN "submit_failed"
                      ELSE "agent_delay"
           /\ evEnded' = IF h = "reraise" THEN "quiet_zone" ELSE evEnded
           /\ IF h \in {"failed_submit", "failed"}
              THEN NoteAfterQuiet("counted_failed")
              ELSE UNCHANGED evAfterQuiet
           /\ evErr' = IF h = "failed_submit" THEN evErr ELSE NoError
           /\ evMessage' = IF h = "failed_submit" THEN evMessage ELSE NoMessage
           /\ evFatalSeen' = (evFatalSeen \/ evErr = EvaluationError(FALSE))
    /\ evFault' = "none"
    /\ evCleanupFault' = "none"
    /\ UNCHANGED <<evStatic, evBatch, evIdx, evPass, beDone, beMarker, fsFiles,
                   evAcceptedIn, evResubmitted, evQuiet>>
    /\ evUploadSent' = IF HandlerFor(evErr) = "failed_submit" THEN evUploadSent ELSE {}
    /\ UNCHANGED evCheck
    /\ UNCHANGED evFinished
    /\ UNCHANGED <<rqVars, rwVars, mnVars, clVars, sbVars, flVars>>

\* The form submit_failed_evaluation uploads: score 0 and the error reason
\* behind the tag "[FAILED]" as the summary.
FailedReport(error_reason) == [score |-> 0, summary |-> <<"[FAILED]", error_reason>>]

\* api.submit_failed_evaluation in the EvaluationError handler: a quiet-zone
\* conflict is re-raised and ends the loop, any other error is logged.
SubmitFailed ==
    /\ evPc = "submit_failed"
    /\ \E verify \in ApiOutcomes, upload \in ApiOutcomes :
        LET exc == SubmissionError(verify, upload)
            a == evBatch[evIdx]
        IN  /\ NoteSubmission(a, "failed", exc = NoError)
            /\ evUploadSent' = IF UploadIsSent(verify) THEN evUploadSent \cup {"failed"}
                               ELSE evUploadSent
            /\ evQuiet' = (evQuiet \/ exc = QuietZoneError)
            /\ beDone' = IF exc = NoError THEN beDone \cup {Recorded(a)} ELSE beDone
            /\ evPc' = IF exc = QuietZoneError THEN "loop_done" ELSE "agent_delay"
            /\ evEnded' = IF exc = QuietZoneError THEN "quiet_zone" ELSE evEnded
    /\ NoteAfterQuiet("submit_failed")
    /\ evErr' = NoError
    /\ evMessage' = NoMessage
    /\ UNCHANGED <<evStatic, evBatch, evIdx, evPass, evCounts, evFault,
                   evCleanupFault, beMarker, fsFiles>>
    /\ UNCHANGED evFatalSeen
    /\ UNCHANGED evCheck
    /\ UNCHANGED evFinished
    /\ UNCHANGED <<rqVars, rwVars, mnVars, clVars, sbVars, flVars>>

\* asyncio.sleep(AGENT_DELAY) is over: the next agent, or the pass returns.
AgentDelayDone ==
    /\ evPc = "agent_delay"
    /\ IF evIdx < Len(evBatch)
       THEN /\ evIdx' = evIdx + 1
            /\ evPc' = "agent_start"
       ELSE /\ evPc' = "loop_check"
            /\ UNCHANGED evIdx
    /\ UNCHANGED <<evStatic, evBatch, evPass, evCounts, evErr, evFault, evMessage, evCleanupFault,
                   beDone, beMarker, fsFiles, evAcceptedIn, evResubmitted, evQuiet, evAfterQuiet, evEnded>>
    /\ UNCHANGED evFatalSeen
    /\ evUploadSent' = {}
    /\ UNCHANGED evCheck
    /\ UNCHANGED evFinished
    /\ UNCHANGED <<rqVars, rwVars, mnVars, clVars, sbVars, flVars>>

(***************************************************************************)
(* The top-level control loop: ValidatorOrchestrator._main_loop.           *)
(*                                                                         *)
(* src/ holds main.py and state.py together with an older models.py and    *)
(* an older TournamentPeriod: main.py and state.py read the fields         *)
(* submit_window_start_time and reward_start_time of Tournament, main.py   *)
(* names the periods PUBLIC_EVALUATION and QUIET_ZONE and calls            *)
(* WeightSetter.burn, none of which src/ declares.  The model takes these  *)
(* declarations to exist, as their users do.                               *)
(***************************************************************************)

\* ValidatorOrchestrator polling intervals (seconds)
NO_TOURNAMENT_INTERVAL == 300

CONTEST_INTERVAL == 60

REVIEW_INTERVAL == 60

COMPLETED_INTERVAL == 300

ERROR_INTERVAL == 60

BURN_INTERVAL == 3600

NoTournament == [id |-> "<None>"]

NoId == "<None>"

\* A boundary timestamp the backend did not send (None; false in Python, as
\* is 0).
NoTime == 0

\* The tournaments the backend may report: the schedule of the scenario of
\* the design notes, with and without a contest start and a reward start,
\* active or done.
Tournaments ==
    [id : {"t1", "t2"},
     status : {"active", "done"},
     contest_start_time : {NoTime, 800},
     submit_window_start_time : {900},
     contest_end_time : {1000},
     evaluation_end_time : {1400},
     reward_start_time : {NoTime, 1450},
     reward_end_time : {1600}]

\* The clock readings of the model: one inside every interval.
NowValues == {700, 850, 950, 1200, 1420, 1500, 1700}

\* "current_time < boundary" raises TypeError when the boundary is None.
RaisesTypeError == "<TypeError>"

\* The comparison with "<=" in the place of "<".
BeforeInclusive(current_time, boundary, period, otherwise) ==
    IF boundary = NoTime THEN RaisesTypeError
    ELSE IF current_time <= boundary THEN period
    ELSE otherwise

Before(current_time, boundary, period, otherwise) ==
    IF boundary = NoTime THEN RaisesTypeError
    ELSE IF current_time < boundary THEN period
    ELSE otherwise

\* The statuses get_current_period answers COMPLETED for.
TerminalStatusesDoneOnly == {"done"}

TerminalStatuses == {"done", "cancelled"}

\* validator.state.get_current_period
get_current_period(tournament, current_time) ==
    IF tournament = NoTournament THEN "NO_TOURNAMENT"
    ELSE IF tournament.status \in TerminalStatuses THEN "COMPLETED"
    ELSE
    Before(current_time, tournament.contest_start_time, "NO_TOURNAMENT",
    Before(current_time, tournament.submit_window_start_time, "CONTEST",
    Before(current_time, tournament.contest_end_time, "SUBMIT_WINDOW",
    Before(current_time, tournament.evaluation_end_time, "EVALUATION",
    IF tournament.reward_start_time # NoTime
       /\ current_time < tournament.reward_start_time THEN "REVIEW"
    ELSE
    Before(current_time, tournament.reward_end_time, "REWARD",
    "COMPLETED")))))

\* The periods _handle_period has a case for.
HandledPeriods == {"NO_TOURNAMENT", "CONTEST", "SUBMIT_WINDOW", "PUBLIC_EVALUATION",
                   "QUIET_ZONE", "EVALUATION", "REVIEW", "REWARD", "COMPLETED"}

\* What determining the period of (tournament, current_time) can give: the
\* result of get_current_period, or, when the loop is exercised with the
\* period as an input, any period _handle_period has a case for.
ObservedPeriods(classifier, tournament, current_time) ==
    IF classifier = "get_current_period"
    THEN {get_current_period(tournament, current_time)}
    ELSE HandledPeriods

\* The (tournament, current_time) pairs a fetch can bring.  With the period
\* given, the schedule and the clock play no part: one active schedule per
\* identity and one clock reading are enough.
FetchInputs(classifier) ==
    IF classifier = "get_current_period"
    THEN Tournaments \X NowValues
    ELSE {t \in Tournaments : /\ t.status = "active"
                              /\ t.contest_start_time # NoTime
                              /\ t.reward_start_time # NoTime} \X {1200}

\* The periods a re-fetch inside a period predicate can observe.
FreshPeriods(classifier) ==
    UNION {ObservedPeriods(classifier, t, now) :
              t \in Tournaments \cup {NoTournament}, now \in NowValues}

\* WeightSetter.burn: all weight on the burn UID.
BurnTarget == BURN_UID

\* The match statement without its cpu case.
HandlerOfGpuOnly(mode, period) ==
    IF period = "NO_TOURNAMENT" THEN "no_tournament"
    ELSE IF period = "REWARD" THEN "reward"
    ELSE IF period = "CONTEST" THEN "contest"
    ELSE IF period = "PUBLIC_EVALUATION" THEN "public_evaluation"
    ELSE IF period = "QUIET_ZONE" THEN "quiet_zone"
    ELSE IF period = "SUBMIT_WINDOW" THEN "submit_window"
    ELSE IF period = "EVALUATION" THEN "evaluation"
    ELSE IF period = "REVIEW" THEN "review"
    ELSE "completed"

\* The case of the match statement of _handle_period that is taken.
HandlerOf(mode, period) ==
    IF period = "NO_TOURNAMENT" THEN "no_tournament"
    ELSE IF period = "REWARD" THEN "reward"
    ELSE IF mode = "cpu" THEN "hourly_burn"
    ELSE IF period = "CONTEST" THEN "contest"
    ELSE IF period = "PUBLIC_EVALUATION" THEN "public_evaluation"
    ELSE IF period = "QUIET_ZONE" THEN "quiet_zone"
    ELSE IF period = "SUBMIT_WINDOW" THEN "submit_window"
    ELSE IF period = "EVALUATION" THEN "evaluation"
    ELSE IF period = "REVIEW" THEN "review"
    ELSE "completed"

\* The cases of _handle_period that call state.reset().
ResetsStateNotQuietZone(handler) == handler \in {"no_tournament", "completed"}

ResetsState(handler) == handler \in {"no_tournament", "quiet_zone", "completed"}

\* "if not self.state.is_setup_complete" before _run_setup.
NeedsSetupNever(is_setup_complete) == FALSE

NeedsSetup(is_setup_complete) == ~is_setup_complete

\* The phase argument _handle_period gives _run_evaluation.
PhaseFor(handler) == IF handler = "public_evaluation" THEN "public" ELSE "private"

\* expected_period of _run_evaluation
ExpectedPeriod(phase) == IF phase = "public" THEN "PUBLIC_EVALUATION" ELSE "EVALUATION"

\* The phase run_evaluation_loop works with: _run_evaluation passes it the
\* tournament and the predicate only, so it is the default of the parameter.
LoopPhase(phase) == "private"

\* ValidatorStateManager.check_tournament_change
CheckTournamentChangeNever(current_tournament_id, tournament_id) == FALSE

check_tournament_change(current_tournament_id, tournament_id) ==
    IF current_tournament_id = NoId THEN FALSE
    ELSE current_tournament_id # tournament_id

\* The errors an iteration can meet, by where they are raised.  All are
\* subclasses of Exception.
FetchErrors == {"RetryError", "pydantic.ValidationError"}

SetupErrors == {"SetupError", "APIError"}

\* load_task_config after the setup has been marked complete.
TaskConfigErrors == {"pydantic.ValidationError"}

EvaluationLoopErrors == {"RetryError", "TypeError"}

RewardErrors == {"RetryError", "IndexError", "ConnectionError"}

BurnErrors == {"ConnectionError"}

ApiErrorClasses == {"APIError", "AuthenticationError", "NotFoundError",
                    "ValidationError", "RateLimitError", "QuietZoneError"}

\* "except Exception" of _main_loop: which exceptions it catches.
CaughtApiErrorsOnly(exc) == exc \in ApiErrorClasses

Caught(exc) == TRUE

MainIdle ==
    /\ mnPc = "idle"
    /\ mnMode = "gpu"
    /\ mnClassifier = "get_current_period"
    /\ mnTournament = NoTournament
    /\ mnNow = 0
    /\ mnPeriod = "none"
    /\ mnPrevId = NoId
    /\ mnDidReset = FALSE
    /\ mnSetupComplete = FALSE
    /\ mnCurrentTournamentId = NoId
    /\ mnSleep = 0
    /\ mnLastError = "none"
    /\ mnTaskConfig = FALSE
    /\ mnPhaseArg = "none"
    /\ mnListPhase = "none"
    /\ mnCounted = {}
    /\ mnQuietPending = FALSE
    /\ mnBurnTarget = NoUid

\* ValidatorOrchestrator.__init__ and the entry of _main_loop, with the
\* given source of periods.
MainStart(classifier) ==
    /\ mnPc = "fetch"
    /\ mnMode \in {"gpu", "cpu"}
    /\ mnClassifier = classifier
    /\ mnTournament = NoTournament
    /\ mnNow = 0
    /\ mnPeriod = "none"
    /\ mnPrevId = NoId
    /\ mnDidReset = FALSE
    /\ mnSetupComplete = FALSE
    /\ mnCurrentTournamentId = NoId
    /\ mnSleep = 0
    /\ mnLastError = "none"
    /\ mnTaskConfig = FALSE
    /\ mnPhaseArg = "none"
    /\ mnListPhase = "none"
    /\ mnCounted = {}
    /\ mnQuietPending = FALSE
    /\ mnBurnTarget = NoUid

MainInit == MainStart("get_current_period")

\* An exception leaves the try block of the iteration.
Fail(exc) ==
    /\ mnLastError' = exc
    /\ IF Caught(exc)
       THEN /\ mnPc' = "sleep"
            /\ mnSleep' = ERROR_INTERVAL
       ELSE /\ mnPc' = "terminated"
            /\ UNCHANGED mnSleep

\* The loop goes to sleep for the interval, inside _handle_period or before.
Sleep(interval) ==
    /\ mnPc' = "sleep"
    /\ mnSleep' = interval
    /\ UNCHANGED mnLastError

\* A mark_setup_complete that sets the flag without recording the identity.
MarkSetupCompleteNoId(tournament_id) == NoId

\* ValidatorStateManager.mark_setup_complete: the identity recorded together
\* with the flag.
mark_setup_complete(tournament_id) == tournament_id

\* ValidatorStateManager.reset
StateReset ==
    /\ mnSetupComplete' = FALSE
    /\ mnCurrentTournamentId' = NoId

\* The identity observed last, once the running fetch has replaced it.
LastSeenId == IF mnTournament # NoTournament THEN mnTournament.id ELSE mnPrevId

\* An iteration up to _handle_period: the active tournament is fetched, a
\* change of tournament resets the state, the period is determined.
MainFetch ==
    /\ mnPc = "fetch"
    /\ \/ \E exc \in FetchErrors :
            /\ Fail(exc)
            /\ UNCHANGED <<mnIter, mnState>>
       \/ /\ mnTournament' = NoTournament
          /\ mnPrevId' = LastSeenId
          /\ mnPeriod' = "none"
          /\ mnDidReset' = FALSE
          /\ Sleep(NO_TOURNAMENT_INTERVAL)
          /\ UNCHANGED <<mnNow, mnState>>
       \/ \E inp \in FetchInputs(mnClassifier) :
          \E period \in ObservedPeriods(mnClassifier, inp[1], inp[2]) :
          LET t == inp[1]
              now == inp[2]
          IN
            /\ mnTournament' = t
            /\ mnPrevId' = LastSeenId
            /\ mnNow' = now
            /\ mnDidReset' = check_tournament_change(mnCurrentTournamentId, t.id)
            /\ IF check_tournament_change(mnCurrentTournamentId, t.id)
               THEN StateReset
               ELSE UNCHANGED mnState
            /\ IF period = RaisesTypeError
               THEN /\ mnPeriod' = "none"
                    /\ Fail("TypeError")
               ELSE /\ mnPeriod' = period
                    /\ mnPc' = "handle"
                    /\ UNCHANGED <<mnSleep, mnLastError>>
    /\ mnPhaseArg' = "none"
    /\ mnListPhase' = "none"
    /\ UNCHANGED <<mnStatic, mnTaskConfig, mnCounted, mnQuietPending>>
    /\ mnBurnTarget' = NoUid
    /\ UNCHANGED <<rqVars, rwVars, evVars, clVars, sbVars, flVars>>

\* _handle_period: the match statement.
MainHandle ==
    /\ mnPc = "handle"
    /\ LET h == HandlerOf(mnMode, mnPeriod)
       IN  /\ IF ResetsState(h) THEN StateReset ELSE UNCHANGED mnState
           /\ mnQuietPending' = (mnQuietPending \/ h = "quiet_zone")
           /\ mnPhaseArg' = IF h \in {"public_evaluation", "evaluation"}
                            THEN PhaseFor(h) ELSE mnPhaseArg
           /\ IF h \in {"no_tournament"} THEN Sleep(NO_TOURNAMENT_INTERVAL)
              ELSE IF h = "reward"
              THEN /\ mnPc' = "reward"
                   /\ UNCHANGED <<mnSleep, mnLastError>>
              ELSE IF h = "hourly_burn"
              THEN /\ mnPc' = "burn"
                   /\ UNCHANGED <<mnSleep, mnLastError>>
              ELSE IF h \in {"contest", "submit_window", "quiet_zone"}
              THEN Sleep(CONTEST_INTERVAL)
              ELSE IF h \in {"public_evaluation", "evaluation"}
              THEN /\ mnPc' = IF NeedsSetup(mnSetupComplete) THEN "setup" ELSE "evaluation"
                   /\ UNCHANGED <<mnSleep, mnLastError>>
              ELSE IF h = "review" THEN Sleep(REVIEW_INTERVAL)
              ELSE Sleep(COMPLETED_INTERVAL)
    /\ UNCHANGED <<mnStatic, mnIter, mnTaskConfig, mnListPhase, mnCounted>>
    /\ UNCHANGED mnBurnTarget
    /\ UNCHANGED <<rqVars, rwVars, evVars, clVars, sbVars, flVars>>

\* _run_setup: SetupManager.run_setup, mark_setup_complete, then the task
\* configuration is loaded into the validator configuration.
MainSetup ==
    /\ mnPc = "setup"
    /\ \/ /\ mnSetupComplete' = TRUE
          /\ mnCurrentTournamentId' = mark_setup_complete(mnTournament.id)
          /\ mnQuietPending' = FALSE
          /\ \/ /\ mnTaskConfig' = TRUE
                /\ mnPc' = "evaluation"
                /\ UNCHANGED <<mnSleep, mnLastError>>
             \/ \E exc \in TaskConfigErrors :
                   /\ Fail(exc)
                   /\ UNCHANGED mnTaskConfig
       \/ \E exc \in SetupErrors :
            /\ Fail(exc)
            /\ UNCHANGED <<mnState, mnTaskConfig, mnQuietPending>>
    /\ UNCHANGED <<mnStatic, mnIter, mnPhaseArg, mnListPhase, mnCounted>>
    /\ UNCHANGED mnBurnTarget
    /\ UNCHANGED <<rqVars, rwVars, evVars, clVars, sbVars, flVars>>

\* _run_evaluation: run_evaluation_loop tests its period predicate, which
\* re-fetches the tournament; when the fresh period is the expected one the
\* pending list is asked for and agents may be counted; the loop returns,
\* or the predicate raises.  After a return the next iteration starts
\* without a sleep.
MainEvaluation ==
    /\ mnPc = "evaluation"
    /\ \E fresh \in FreshPeriods(mnClassifier) \ {RaisesTypeError} :
          IF fresh = ExpectedPeriod(mnPhaseArg)
          THEN /\ mnListPhase' = LoopPhase(mnPhaseArg)
               /\ \E counted \in BOOLEAN :
                     mnCounted' = IF counted THEN mnCounted \cup {mnTournament.id}
                                  ELSE mnCounted
          ELSE UNCHANGED <<mnListPhase, mnCounted>>
    /\ \/ /\ mnPc' = "fetch"
          /\ UNCHANGED <<mnSleep, mnLastError>>
       \/ \E exc \in EvaluationLoopErrors : Fail(exc)
    /\ UNCHANGED <<mnStatic, mnIter, mnState, mnTaskConfig, mnPhaseArg, mnQuietPending>>
    /\ UNCHANGED mnBurnTarget
    /\ UNCHANGED <<rqVars, rwVars, evVars, clVars, sbVars, flVars>>

\* _run_reward: run_reward leaves only by an exception, since its idle loop
\* tests a coroutine object (see RewardCheck).
MainReward ==
    /\ mnPc = "reward"
    /\ \E exc \in RewardErrors : Fail(exc)
    /\ UNCHANGED <<mnStatic, mnIter, mnState, mnTaskConfig, mnPhaseArg, mnListPhase,
                   mnCounted, mnQuietPending>>
    /\ UNCHANGED mnBurnTarget
    /\ UNCHANGED <<rqVars, rwVars, evVars, clVars, sbVars, flVars>>

\* _hourly_burn
MainBurn ==
    /\ mnPc = "burn"
    /\ \/ /\ mnBurnTarget' = BurnTarget
          /\ Sleep(BURN_INTERVAL)
       \/ \E exc \in BurnErrors :
            /\ Fail(exc)
            /\ UNCHANGED mnBurnTarget
    /\ UNCHANGED <<mnStatic, mnIter, mnState, mnTaskConfig, mnPhaseArg, mnListPhase,
                   mnCounted, mnQuietPending>>
    /\ UNCHANGED <<rqVars, rwVars, evVars, clVars, sbVars, flVars>>

\* A sleep is over: the next iteration starts.
MainSleepDone ==
    /\ mnPc = "sleep"
    /\ mnPc' = "fetch"
    /\ mnLastError' = "none"
    /\ UNCHANGED <<mnStatic, mnIter, mnState, mnSleep, mnTaskConfig, mnPhaseArg,
                   mnListPhase, mnCounted, mnQuietPending>>
    /\ UNCHANGED mnBurnTarget
    /\ UNCHANGED <<rqVars, rwVars, evVars, clVars, sbVars, flVars>>

(***************************************************************************)
(* The request layer.                                                      *)
(***************************************************************************)

\* stop_after_attempt(3)
max_attempts == 3

\* wait_exponential(multiplier=1, min=1, max=30)
wait_multiplier == 1
wait_min == 1
wait_max == 30

\* The status codes the backend may answer with.
Statuses == {200, 400, 401, 403, 404, 409, 422, 429, 500}

\* Retry-After header values of a 429 answer (0: header absent).
NoRetryAfter == 0

\* A Retry-After header that is not a number of seconds (an HTTP date).
UnparsableRetryAfter == -1

RetryAfterValues == {NoRetryAfter, 7, UnparsableRetryAfter}

\* What one attempt can meet: the transport fails, or a response arrives.
TransportFailure == [kind |-> "transport"]

Responses ==
    [kind : {"response"}, status : Statuses \ {200, 429}, json : {TRUE}, retry_after : {NoRetryAfter}]
    \cup [kind : {"response"}, status : {200}, json : BOOLEAN, retry_after : {NoRetryAfter}]
    \cup [kind : {"response"}, status : {429}, json : {TRUE}, retry_after : RetryAfterValues]

AttemptInputs == {TransportFailure} \cup Responses

\* TournamentAPI._handle_error_response: the exception class of a status.
_handle_error_response(status) ==
    IF status = 401 \/ status = 403 THEN "AuthenticationError"
    ELSE IF status = 404 THEN "NotFoundError"
    ELSE IF status = 400 \/ status = 422 THEN "ValidationError"
    ELSE IF status = 409 THEN "QuietZoneError"
    ELSE IF status = 429 THEN "RateLimitError"
    ELSE "APIError"

\* The body of TournamentAPI._request for one attempt: the exception it
\* raises, or "ok" when it returns the response.
RequestBody(input, expect_json) ==
    IF input.kind = "transport" THEN "TransportError"
    ELSE IF input.status = 429 /\ input.retry_after = UnparsableRetryAfter
         THEN "ValueError"   \* int(retry_after) inside _handle_error_response
    ELSE IF input.status >= 400 THEN _handle_error_response(input.status)
    ELSE IF expect_json /\ input.status = 200 /\ ~input.json THEN "APIError"
    ELSE "ok"

\* The status_code attribute of an exception that has none.
NoStatus == 0

NoAttemptExc == [class |-> "none", status_code |-> NoStatus]

\* The exception one attempt raises, with the status_code it is built with.
AttemptException(input, expect_json) ==
    LET class == RequestBody(input, expect_json)
    IN  [class |-> class,
         status_code |-> IF class \in {"ok", "TransportError", "ValueError"}
                         THEN NoStatus ELSE input.status]

\* retry_if_exception_type((httpx.TransportError, RateLimitError))
RetryAllErrors(exc) == exc # "ok"

RetryIf(exc) == exc \in {"TransportError", "RateLimitError"}

\* stop_after_attempt(3): true when no further attempt is made.
StopOneEarly(attempt_number) == attempt_number >= max_attempts - 1

StopOneLate(attempt_number) == attempt_number >= max_attempts + 1

StopAfterAttempt(attempt_number) == attempt_number >= max_attempts

Pow2(n) == IF n = 0 THEN 1 ELSE IF n = 1 THEN 2 ELSE IF n = 2 THEN 4 ELSE 8

Max2(a, b) == IF a >= b THEN a ELSE b

Min2(a, b) == IF a <= b THEN a ELSE b

\* wait_exponential: multiplier * 2^(attempt_number - 1), clamped.
WaitExponential(attempt_number) ==
    Max2(Max2(0, wait_min), Min2(wait_multiplier * Pow2(attempt_number - 1), wait_max))

\* The exception the retry decorator surfaces once it gives up: tenacity's
\* default (reraise is not set) wraps the last attempt in RetryError.
RetryExhausted(exc) == "RetryError"

RequestInit ==
    /\ rqPc = "idle"
    /\ rqExpectJson = TRUE
    /\ rqLog = <<>>
    /\ rqResult = NoResult
    /\ rqWaits = <<>>
    /\ rqAttemptExc = NoAttemptExc

\* A caller enters _request.
RequestStart ==
    /\ rqPc = "idle"
    /\ \E ej \in BOOLEAN : rqExpectJson' = ej
    /\ rqPc' = "attempt"
    /\ UNCHANGED <<rqLog, rqResult, rqWaits, rqAttemptExc>>
    /\ UNCHANGED <<rwVars, evVars, mnVars, clVars, sbVars, flVars>>

\* One attempt of the decorated function and the decorator's decision.
RequestAttempt ==
    /\ rqPc = "attempt"
    /\ \E input \in AttemptInputs :
        LET exc == RequestBody(input, rqExpectJson)
            n == Len(rqLog) + 1
        IN  /\ rqLog' = Append(rqLog, input)
            /\ rqAttemptExc' = AttemptException(input, rqExpectJson)
            /\ IF exc = "ok"
               THEN /\ rqPc' = "returned"
                    /\ rqResult' = input
                    /\ UNCHANGED rqWaits
               ELSE IF ~RetryIf(exc)
               THEN /\ rqPc' = "raised"
                    /\ rqResult' = Raised(exc)
                    /\ UNCHANGED rqWaits
               ELSE IF StopAfterAttempt(n)
               THEN /\ rqPc' = "raised"
                    /\ rqResult' = Raised(RetryExhausted(exc))
                    /\ UNCHANGED rqWaits
               ELSE /\ rqPc' = "wait"
                    /\ rqWaits' = Append(rqWaits, WaitExponential(n))
                    /\ UNCHANGED rqResult
    /\ UNCHANGED rqExpectJson
    /\ UNCHANGED <<rwVars, evVars, mnVars, clVars, sbVars, flVars>>

\* The sleep between two attempts is over.
RequestWaitDone ==
    /\ rqPc = "wait"
    /\ rqPc' = "attempt"
    /\ UNCHANGED <<rqExpectJson, rqLog, rqResult, rqWaits, rqAttemptExc>>
    /\ UNCHANGED <<rwVars, evVars, mnVars, clVars, sbVars, flVars>>

(***************************************************************************)
(* The period classifier called on its own: get_current_period applied to  *)
(* every tournament and clock reading of a bounded time line.              *)
(***************************************************************************)

\* The time line: boundaries are 1..MaxTime, the clock also reads before
\* the first and after the last of them.
MaxTime == 3

Times == 1..MaxTime

Clock == 0..(MaxTime + 1)

\* The boundary timestamps of a tournament in their order.  The two in the
\* middle are sent by the backend for a tournament with a public-evaluation
\* split (has_public_eval): the end of the public evaluation and the start
\* of the private one.
BoundaryFields ==
    <<"contest_start_time", "submit_window_start_time", "contest_end_time",
      "public_eval_end_time", "evaluation_start_time", "evaluation_end_time",
      "reward_start_time", "reward_end_time">>

OptionalFields == {"public_eval_end_time", "evaluation_start_time", "reward_start_time"}

\* The timestamps that are present are non-decreasing in the order of
\* BoundaryFields.
Monotone(t) ==
    \A i \in 1..Len(BoundaryFields) : \A j \in 1..Len(BoundaryFields) :
        (i < j /\ t[BoundaryFields[i]] # NoTime /\ t[BoundaryFields[j]] # NoTime)
            => t[BoundaryFields[i]] <= t[BoundaryFields[j]]

HasPublicSplit(t) == t.public_eval_end_time # NoTime

\* The tournaments the classifier is called with: every status it tells
\* apart, every boundary an integer of the time line or None.
Schedules ==
    {t \in [id : {"t1"},
            status : {"active", "done", "cancelled"},
            contest_start_time : {NoTime} \cup Times,
            submit_window_start_time : {NoTime} \cup Times,
            contest_end_time : {NoTime} \cup Times,
            public_eval_end_time : {NoTime} \cup Times,
            evaluation_start_time : {NoTime} \cup Times,
            evaluation_end_time : {NoTime} \cup Times,
            reward_start_time : {NoTime} \cup Times,
            reward_end_time : {NoTime} \cup Times] :
        /\ Monotone(t)
        /\ (t.public_eval_end_time = NoTime) <=> (t.evaluation_start_time = NoTime)}

\* Every boundary the schedule must have is present.
Complete(t) ==
    \A i \in 1..Len(BoundaryFields) :
        BoundaryFields[i] \notin OptionalFields => t[BoundaryFields[i]] # NoTime

\* The period of the interval current_time falls in, by comparing it with
\* the two boundaries of every interval.
IntervalOf(t, current_time) ==
    LET In(from, to) == from <= current_time /\ current_time < to
        eval_start == IF HasPublicSplit(t) THEN t.evaluation_start_time
                      ELSE t.contest_end_time
    IN  IF current_time < t.contest_start_time THEN "NO_TOURNAMENT"
        ELSE IF In(t.contest_start_time, t.submit_window_start_time) THEN "CONTEST"
        ELSE IF In(t.submit_window_start_time, t.contest_end_time) THEN "SUBMIT_WINDOW"
        ELSE IF HasPublicSplit(t) /\ In(t.contest_end_time, t.public_eval_end_time)
             THEN "PUBLIC_EVALUATION"
        ELSE IF HasPublicSplit(t) /\ In(t.public_eval_end_time, t.evaluation_start_time)
             THEN "QUIET_ZONE"
        ELSE IF In(eval_start, t.evaluation_end_time) THEN "EVALUATION"
        ELSE IF In(t.evaluation_end_time, t.reward_start_time) THEN "REVIEW"
        ELSE IF In(t.reward_start_time, t.reward_end_time) THEN "REWARD"
        ELSE "COMPLETED"

ClassifyIdle ==
    /\ clPc = "idle"
    /\ clTournament = NoTournament
    /\ clNow = 0
    /\ clResult = "none"

ClassifyInit ==
    /\ clPc = "call"
    /\ clTournament \in Schedules \cup {NoTournament}
    /\ clNow \in Clock
    /\ clResult = "none"

\* get_current_period(tournament, current_time) returns or raises.
Classify ==
    /\ clPc = "call"
    /\ clResult' = get_current_period(clTournament, clNow)
    /\ clPc' = IF clResult' = RaisesTypeError THEN "raised" ELSE "returned"
    /\ UNCHANGED <<clTournament, clNow>>
    /\ UNCHANGED <<rqVars, rwVars, evVars, mnVars, sbVars, flVars>>

(***************************************************************************)
(* The two-step result submission of TournamentAPI: submit_evaluation and  *)
(* submit_failed_evaluation, called one after the other by one validator.  *)
(***************************************************************************)

\* How many submissions one run makes.
MaxSubmissions == 3

\* The token variable before the verify step has returned.
NoToken == 0

\* What the verify step can meet: the backend answers with a token, the
\* wallet is missing, the request raises (an error answer, a quiet-zone
\* conflict), or the answer is not an EvaluationToken.
VerifyOutcomes == {"ok", "no_wallet", "error", "quiet", "malformed"}

\* What the upload request can meet.
UploadOutcomes == {"ok", "error", "quiet", "timeout"}

\* EvaluationToken(**response.json()) for the answer that carries token n.
EvaluationToken(n) == [upload_token |-> n]

\* The X-Upload-Token header of the upload with an older token.
XUploadTokenStale(token) == IF token.upload_token > 1 THEN token.upload_token - 1 ELSE 1

\* The X-Upload-Token header of the upload request.
XUploadToken(token) == token.upload_token

SubmitIdle ==
    /\ sbPc = "off"
    /\ sbKind = "none"
    /\ sbCalls = 0
    /\ sbIssued = 0
    /\ sbToken = EvaluationToken(NoToken)
    /\ sbUploads = <<>>

SubmitInit ==
    /\ sbPc = "idle"
    /\ sbKind = "none"
    /\ sbCalls = 0
    /\ sbIssued = 0
    /\ sbToken = EvaluationToken(NoToken)
    /\ sbUploads = <<>>

\* submit_evaluation or submit_failed_evaluation is called.
SubmitCall ==
    /\ sbPc = "idle"
    /\ sbCalls < MaxSubmissions
    /\ sbCalls' = sbCalls + 1
    /\ \E kind \in {"result", "failed"} : sbKind' = kind
    /\ sbPc' = "verify"
    /\ sbToken' = EvaluationToken(NoToken)
    /\ UNCHANGED <<sbIssued, sbUploads>>
    /\ UNCHANGED <<rqVars, rwVars, evVars, mnVars, clVars, flVars>>

\* Step 1, _verify_evaluation_submit: the token of the answer is kept, or
\* the exception leaves the submission.
SubmitVerify ==
    /\ sbPc = "verify"
    /\ \E outcome \in VerifyOutcomes :
        IF outcome = "ok"
        THEN /\ sbIssued' = sbIssued + 1
             /\ sbToken' = EvaluationToken(sbIssued + 1)
             /\ sbPc' = "upload"
        ELSE /\ sbIssued' = IF outcome = "malformed" THEN sbIssued + 1 ELSE sbIssued
             /\ sbPc' = "raised"
             /\ UNCHANGED sbToken
    /\ UNCHANGED <<sbKind, sbCalls, sbUploads>>
    /\ UNCHANGED <<rqVars, rwVars, evVars, mnVars, clVars, flVars>>

\* Step 2: the form is posted to the submit endpoint with the token header.
SubmitUpload ==
    /\ sbPc = "upload"
    /\ sbUploads' = Append(sbUploads, [kind |-> sbKind, token |-> XUploadToken(sbToken)])
    /\ \E outcome \in UploadOutcomes :
        sbPc' = IF outcome = "ok" THEN "returned" ELSE "raised"
    /\ UNCHANGED <<sbKind, sbCalls, sbIssued, sbToken>>
    /\ UNCHANGED <<rqVars, rwVars, evVars, mnVars, clVars, flVars>>

\* The submission has returned or raised; the caller may start another.
SubmitDone ==
    /\ sbPc \in {"returned", "raised"}
    /\ sbPc' = "idle"
    /\ UNCHANGED <<sbKind, sbCalls, sbIssued, sbToken, sbUploads>>
    /\ UNCHANGED <<rqVars, rwVars, evVars, mnVars, clVars, flVars>>

(***************************************************************************)
(* Two validator processes evaluating the agents of one tournament.  Each  *)
(* runs the for loop of _process_pending_agents; the backend keeps one     *)
(* ledger of recorded evaluations per validator.                           *)
(***************************************************************************)

Validators == {validator_hotkey, other_hotkey}

\* Where the for loop is once evaluate() has been entered: the call is
\* awaited, so the loop is suspended until evaluate has returned or raised.
LoopAfterStartDetached == "delay"

LoopAfterStart == "await"

\* The agents of validator v whose pipeline has started and whose cleanup
\* has not finished.
InFlight(v) == {a \in Agents : flStage[v][a] # "none"}

\* The backend's list endpoint for validator v: the agents v has no recorded
\* evaluation for and is not evaluating; what other validators do with an
\* agent does not remove it.
FleetPending(v) == {a \in Agents : a \notin flDone[v] /\ flStage[v][a] = "none"}

FleetIdle ==
    /\ flPc = [v \in Validators |-> "off"]
    /\ flBatch = [v \in Validators |-> <<>>]
    /\ flIdx = [v \in Validators |-> 0]
    /\ flStage = [v \in Validators |-> [a \in Agents |-> "none"]]
    /\ flDone = [v \in Validators |-> {}]

FleetInit ==
    /\ flPc = [v \in Validators |-> "fetch"]
    /\ flBatch = [v \in Validators |-> <<>>]
    /\ flIdx = [v \in Validators |-> 0]
    /\ flStage = [v \in Validators |-> [a \in Agents |-> "none"]]
    /\ flDone = [v \in Validators |-> {}]

\* get_pending_agents and the test of the response: an empty list sends the
\* pass to sleep, any other list enters the for loop.
FleetFetch(v) ==
    /\ flPc[v] = "fetch"
    /\ \E agents \in {q \in DistinctSeqs(FleetPending(v)) :
                         Len(q) = Cardinality(FleetPending(v))} :
        /\ flBatch' = [flBatch EXCEPT ![v] = agents]
        /\ flIdx' = [flIdx EXCEPT ![v] = 1]
        /\ flPc' = [flPc EXCEPT ![v] = IF agents = <<>> THEN "sleep" ELSE "loop"]
    /\ UNCHANGED <<flStage, flDone>>
    /\ UNCHANGED <<rqVars, rwVars, evVars, mnVars, clVars, sbVars>>

\* asyncio.sleep(POLL_INTERVAL) of an empty pass; the loop asks again.
FleetPollDone(v) ==
    /\ flPc[v] = "sleep"
    /\ flPc' = [flPc EXCEPT ![v] = "fetch"]
    /\ UNCHANGED <<flBatch, flIdx, flStage, flDone>>
    /\ UNCHANGED <<rqVars, rwVars, evVars, mnVars, clVars, sbVars>>

\* The for loop takes the next agent and enters evaluate(); after the last
\* agent the pass returns and the loop asks for the list again.
FleetEvaluate(v) ==
    /\ flPc[v] = "loop"
    /\ IF flIdx[v] <= Len(flBatch[v])
       THEN /\ flStage' = [flStage EXCEPT ![v][flBatch[v][flIdx[v]]] = "pipeline"]
            /\ flIdx' = [flIdx EXCEPT ![v] = @ + 1]
            /\ flPc' = [flPc EXCEPT ![v] = LoopAfterStart]
       ELSE /\ flPc' = [flPc EXCEPT ![v] = "fetch"]
            /\ UNCHANGED <<flStage, flIdx>>
    /\ UNCHANGED <<flBatch, flDone>>
    /\ UNCHANGED <<rqVars, rwVars, evVars, mnVars, clVars, sbVars>>

\* The try block of evaluate ends, with the result recorded by the backend
\* or not; the finally clause begins.
FleetPipelineEnd(v, a) ==
    /\ flStage[v][a] = "pipeline"
    /\ flStage' = [flStage EXCEPT ![v][a] = "cleanup"]
    /\ \E recorded \in BOOLEAN :
        flDone' = [flDone EXCEPT ![v] = IF recorded THEN @ \cup {a} ELSE @]
    /\ UNCHANGED <<flPc, flBatch, flIdx>>
    /\ UNCHANGED <<rqVars, rwVars, evVars, mnVars, clVars, sbVars>>

\* _cleanup has finished; evaluate returns or raises to the awaiting loop,
\* whose except clauses (with the failure submission, recorded or not, of
\* an EvaluationError) lead to the delay between agents.
FleetCleanup(v, a) ==
    /\ flStage[v][a] = "cleanup"
    /\ flStage' = [flStage EXCEPT ![v][a] = "none"]
    /\ flPc' = [flPc EXCEPT ![v] = IF @ = "await" THEN "delay" ELSE @]
    /\ \E recorded \in BOOLEAN :
        flDone' = [flDone EXCEPT ![v] = IF recorded THEN @ \cup {a} ELSE @]
    /\ UNCHANGED <<flBatch, flIdx>>
    /\ UNCHANGED <<rqVars, rwVars, evVars, mnVars, clVars, sbVars>>

\* asyncio.sleep(AGENT_DELAY) has passed; the for loop goes on.
FleetAgentDelay(v) ==
    /\ flPc[v] = "delay"
    /\ flPc' = [flPc EXCEPT ![v] = "loop"]
    /\ UNCHANGED <<flBatch, flIdx, flStage, flDone>>
    /\ UNCHANGED <<rqVars, rwVars, evVars, mnVars, clVars, sbVars>>

InitRequest == RequestInit /\ RewardIdle /\ EvalIdle /\ MainIdle /\ ClassifyIdle /\ SubmitIdle /\ FleetIdle

NextRequest ==
    \/ RequestStart
    \/ RequestAttempt
    \/ RequestWaitDone

SpecRequest == InitRequest /\ [][NextRequest]_vars

InitReward == RewardInit /\ RequestInit /\ EvalIdle /\ MainIdle /\ ClassifyIdle /\ SubmitIdle /\ FleetIdle

NextReward ==
    \/ RewardGetWinner
    \/ SetWeightsAttempt
    \/ SetWeightsRetry
    \/ SetWeightsFallback
    \/ RewardCheck
    \/ RewardSleepDone
    \/ BackendRewardEnds

SpecReward == InitReward /\ [][NextReward]_vars

\* What the request of get_active_tournament can end with: a response, an
\* exception of the APIError family, or another exception.
ActiveFetchOutcomes == {"ok"} \cup ApiErrorClasses \cup FetchErrors

\* get_active_tournament has left with an exception.
FetchRaised == [id |-> "<raised>"]

\* A get_active_tournament that turns only the 404 into None.
GetActiveTournamentNotFoundOnly(outcome, body) ==
    IF outcome = "ok" THEN body
    ELSE IF outcome = "NotFoundError" THEN NoTournament
    ELSE FetchRaised

\* TournamentAPI.get_active_tournament: the tournament of the response
\* (None for an empty body), None for a 404 and for any other APIError; an
\* exception of another class leaves the method.
get_active_tournament(outcome, body) ==
    IF outcome = "ok" THEN body
    ELSE IF outcome \in ApiErrorClasses THEN NoTournament
    ELSE FetchRaised

\* A predicate that holds whatever the re-fetch brings.
IsEvaluationPeriodAlways(fresh, current_time, expected_period) ==
    IF fresh = FetchRaised THEN "raised" ELSE "true"

\* is_evaluation_period of _run_evaluation:
\* get_current_period(fresh) == expected_period, or the exception of the
\* re-fetch or of the classifier.
is_evaluation_period(fresh, current_time, expected_period) ==
    IF fresh = FetchRaised THEN "raised"
    ELSE IF get_current_period(fresh, current_time) = RaisesTypeError THEN "raised"
    ELSE IF get_current_period(fresh, current_time) = expected_period THEN "true"
    ELSE "false"

\* Where the answer of get_active_tournament came from.
SourceOf(outcome, body) ==
    IF outcome \in FetchErrors THEN "raised"
    ELSE IF outcome \in ApiErrorClasses THEN "api_error"
    ELSE IF body = NoTournament THEN "empty"
    ELSE "tournament"

\* One evaluation of the period predicate: the active tournament is fetched
\* again and classified.  body and current_time are the backend's tournament
\* and the clock at the time of the check, phase the argument _run_evaluation
\* was called with.  in_period tells whether the backend is in the expected
\* period, whatever the re-fetch brought.
PeriodCheck(outcome, body, current_time, phase) ==
    [source |-> SourceOf(outcome, body),
     answer |-> is_evaluation_period(get_active_tournament(outcome, body),
                                     current_time, ExpectedPeriod(phase)),
     in_period |-> get_current_period(body, current_time) = ExpectedPeriod(phase)]

\* The checks the loop can meet.
PeriodChecks ==
    {PeriodCheck(outcome, body, current_time, phase) :
        outcome \in ActiveFetchOutcomes, body \in Tournaments \cup {NoTournament},
        current_time \in NowValues, phase \in Phases}

\* "while await is_evaluation_period_fn()".  The call is outside the try
\* statement of the loop, so an exception of the predicate leaves
\* run_evaluation_loop.
LoopCheck ==
    /\ evPc = "loop_check"
    /\ \E check \in PeriodChecks :
        /\ evCheck' = check
        /\ IF check.answer = "true"
           THEN /\ evPass < MaxPasses
                /\ evPc' = "fetch"
                /\ evPass' = evPass + 1
                /\ UNCHANGED evEnded
           ELSE /\ evPc' = "loop_done"
                /\ evEnded' = IF check.answer = "raised" THEN "raised" ELSE "period_over"
                /\ UNCHANGED evPass
    /\ UNCHANGED <<evStatic, evBatch, evIdx, evCounts, evErr, evFault, evMessage, evCleanupFault,
                   beDone, beMarker, fsFiles, evAcceptedIn, evResubmitted, evQuiet, evAfterQuiet>>
    /\ UNCHANGED evFatalSeen
    /\ UNCHANGED evUploadSent
    /\ UNCHANGED evFinished
    /\ UNCHANGED <<rqVars, rwVars, mnVars, clVars, sbVars, flVars>>

InitEval == EvalInit /\ RequestInit /\ RewardIdle /\ MainIdle /\ ClassifyIdle /\ SubmitIdle /\ FleetIdle

NextEval ==
    \/ LoopCheck
    \/ FetchPending
    \/ PollSleepDone
    \/ AgentStart
    \/ CleanPrevious
    \/ DownloadExtract
    \/ MarkInProgress
    \/ InstallModule
    \/ RunEngine
    \/ CollectResult
    \/ SubmitResults
    \/ Cleanup
    \/ HandleOutcome
    \/ SubmitFailed
    \/ AgentDelayDone

SpecEval == InitEval /\ [][NextEval]_vars

(***************************************************************************)
(* Properties of the evaluation orchestrator and the pipeline.             *)
(***************************************************************************)

\* No agent has a result submission started in a pass after the pass in
\* which a submission for it was accepted.
NoResubmit == evResubmitted = {}

InjectedFaults == {"download", "install", "run_timeout", "result_missing", "submit"}

\* C2: for every failure point of evaluate (download fails, install fails,
\* run times out, result file missing, submit fails), when evaluate has
\* finished and nothing failed inside the cleanup itself, the in-progress
\* marker is cleared on the backend and no scratch file is left.
C2_CleanupAfterFailure ==
    (evPc = "evaluate_done" /\ evFault \in InjectedFaults /\ evCleanupFault = "none")
        => beMarker = NoAgent /\ fsFiles \cap ScratchFiles = {}

C2_Witness ==
    /\ evPc = "evaluate_done"
    /\ evFault = "submit"
    /\ evCleanupFault = "none"
    /\ evErr = EvaluationError(TRUE)
    /\ beMarker = NoAgent
    /\ fsFiles = {}

\* C3: once a result submission has met a quiet-zone conflict, nothing more
\* is done for that agent or a later one (no failure is counted, no further
\* submission or pipeline is started, no further list is fetched): only the
\* cleanup of the running pipeline remains, the conflict leaves evaluate as
\* a quiet-zone error and the loop ends.
C3_QuietZoneAborts ==
    evQuiet =>
        /\ evAfterQuiet = "nothing"
        /\ evPc \in {"cleanup", "evaluate_done", "loop_done"}
        /\ evPc = "evaluate_done" => evErr = QuietZoneError
        /\ evPc = "loop_done" => evEnded = "quiet_zone"

\* The positions inside evaluate, from its entry to the result submission.
PipelinePcs == {"agent_start", "clean_previous", "download", "mark", "install",
                "run", "collect", "submit"}

\* C11: once a non-recoverable evaluation error (missing task configuration,
\* missing engine entrypoint) has been raised for an agent, evaluate is not
\* entered for a later agent of the batch in the same pass.
C11_NonRecoverableAbortsPass == evFatalSeen => evPc \notin PipelinePcs

\* C12: a recoverable evaluation failure of an agent is reported to the
\* backend as a failed evaluation with score 0 and a summary that carries
\* the failure reason, and unless that report meets a quiet-zone conflict
\* the orchestrator goes on with the next agent of the batch.
C12_RecoverableReportedAndContinues ==
    /\ [][(evPc = "evaluate_done" /\ evErr = EvaluationError(TRUE))
            => evPc' = "submit_failed"]_vars
    /\ []((evPc = "submit_failed" /\ evErr = EvaluationError(TRUE))
            => /\ FailedReport(evMessage).score = 0
               /\ FailedReport(evMessage).summary[2] \notin {EmptyMessage, NoMessage})
    /\ [][(evPc = "submit_failed" /\ ~evQuiet') => evPc' = "agent_delay"]_vars
    /\ [][(evPc = "agent_delay" /\ evIdx < Len(evBatch))
            => (evPc' = "agent_start" /\ evIdx' = evIdx + 1)]_vars

(***************************************************************************)
(* Properties of the reward phase.                                         *)
(***************************************************************************)

\* C5: after the weights for the selected target are published, run_reward
\* idles only while the reward-period predicate holds: a check made once
\* the backend reports the reward period over goes on to the final publish
\* to the burn target (UID 0) instead of another sleep.
C5_FinalBurnAfterRewardEnds ==
    [][(rwPc = "check" /\ rwBackendPeriod # "REWARD")
          => (rwPc' = "set_weights" /\ rwCall'.n = 2 /\ rwCall'.target_uid = BURN_UID)]_vars

WinnerPresent ==
    /\ rwWinnerResp.kind = "info"
    /\ rwWinnerResp.winner_approved
    /\ rwWinnerResp.winner_hotkey \in Range(rwMetagraph)

\* C6: once the winner is resolved, the reward target is the burn index
\* (UID 0) whenever no approved winner is reported or the winner's hotkey
\* is not in the metagraph snapshot, and otherwise it is the UID under
\* which the snapshot lists the approved winner's hotkey; the first
\* publish goes to that target.
C6_RewardTarget ==
    rwPc \notin {"idle", "run_reward"} =>
        /\ ~WinnerPresent => rwWinnerUid = BURN_UID
        /\ WinnerPresent => rwMetagraph[rwWinnerUid + 1] = rwWinnerResp.winner_hotkey
        /\ rwWinnerUid # BURN_UID => WinnerPresent
        /\ \A i \in 1..Len(rwPublishes) :
              (rwPublishes[i].call = 1 /\ ~rwPublishes[i].fallback)
                  => rwPublishes[i].uid = rwWinnerUid

C6_Witness ==
    /\ rwPc = "check"
    /\ WinnerPresent
    /\ rwWinnerUid = 1
    /\ Len(rwPublishes) = 1
    /\ rwPublishes[1].uid = 1
    /\ rwPublishes[1].outcome = "ok"

C6_WitnessBurn ==
    /\ rwPc = "check"
    /\ rwWinnerResp.kind = "info"
    /\ rwWinnerResp.winner_approved
    /\ rwWinnerResp.winner_hotkey \in Hotkeys \ Range(rwMetagraph)
    /\ rwWinnerUid = BURN_UID

\* The publishes of _set_weights call n, by kind.
PrimaryOf(n) == {i \in 1..Len(rwPublishes) : rwPublishes[i].call = n /\ ~rwPublishes[i].fallback}

FallbackOf(n) == {i \in 1..Len(rwPublishes) : rwPublishes[i].call = n /\ rwPublishes[i].fallback}

Logged(n, msg) == \E i \in 1..Len(rwLog) : rwLog[i] = [call |-> n, msg |-> msg]

FirstCallReturned == rwPc \in {"check", "sleep"}

AllPrimaryFailed(n) ==
    /\ Cardinality(PrimaryOf(n)) = rwConfig.weight_setting_max_attempts
    /\ \A i \in PrimaryOf(n) : rwPublishes[i].outcome # "ok"

\* C7: when _set_weights has returned and every publish attempt for a
\* non-default target failed, exactly one fallback publish to the burn
\* target was made, and when that one failed too (it raised or reported
\* failure) the failure is in the log; _set_weights never raises; for the
\* burn target no fallback publish is made.
C7_FallbackOnce ==
    FirstCallReturned =>
        /\ (rwWinnerUid # BURN_UID /\ AllPrimaryFailed(1)) =>
              /\ Cardinality(FallbackOf(1)) = 1
              /\ \A i \in FallbackOf(1) :
                    /\ rwPublishes[i].uid = BURN_UID
                    /\ rwPublishes[i].outcome # "ok" => Logged(1, "fallback_failed")
        /\ rwWinnerUid = BURN_UID => FallbackOf(1) = {}

InitMain == MainInit /\ RequestInit /\ RewardIdle /\ EvalIdle /\ ClassifyIdle /\ SubmitIdle /\ FleetIdle

NextMain ==
    \/ MainFetch
    \/ MainHandle
    \/ MainSetup
    \/ MainEvaluation
    \/ MainReward
    \/ MainBurn
    \/ MainSleepDone

SpecMain == InitMain /\ [][NextMain]_vars

\* asyncio.sleep returns after its interval: a sleeping loop wakes up.
SpecMainFair == SpecMain /\ WF_vars(MainSleepDone)

\* The control loop exercised with every period _handle_period has a case
\* for.
InitDispatch ==
    MainStart("given") /\ RequestInit /\ RewardIdle /\ EvalIdle /\ ClassifyIdle /\ SubmitIdle /\ FleetIdle

SpecDispatch == InitDispatch /\ [][NextMain]_vars

InitClassify ==
    ClassifyInit /\ RequestInit /\ RewardIdle /\ EvalIdle /\ MainIdle /\ SubmitIdle /\ FleetIdle

NextClassify == Classify

SpecClassify == InitClassify /\ [][NextClassify]_vars

InitSubmit ==
    SubmitInit /\ RequestInit /\ RewardIdle /\ EvalIdle /\ MainIdle /\ ClassifyIdle /\ FleetIdle

NextSubmit ==
    \/ SubmitCall
    \/ SubmitVerify
    \/ SubmitUpload
    \/ SubmitDone

SpecSubmit == InitSubmit /\ [][NextSubmit]_vars

InitFleet ==
    /\ FleetInit /\ RequestInit /\ RewardIdle /\ EvalIdle /\ MainIdle
    /\ ClassifyIdle /\ SubmitIdle

NextFleet ==
    \/ \E v \in Validators : FleetFetch(v)
    \/ \E v \in Validators : FleetPollDone(v)
    \/ \E v \in Validators : FleetEvaluate(v)
    \/ \E v \in Validators, a \in Agents : FleetPipelineEnd(v, a)
    \/ \E v \in Validators, a \in Agents : FleetCleanup(v, a)
    \/ \E v \in Validators : FleetAgentDelay(v)

SpecFleet == InitFleet /\ [][NextFleet]_vars

(***************************************************************************)
(* Properties of the evaluation orchestrator: result submissions.          *)
(***************************************************************************)

\* C30: for one agent in one pass at most one of submit_evaluation and
\* submit_failed_evaluation reaches the submit endpoint.
C30_OneSubmissionPerAgent == evUploadSent # {"result", "failed"}

(***************************************************************************)
(* Properties of the result submission.                                    *)
(***************************************************************************)

\* C29: a request reaches the submit endpoint only from a submission whose
\* verify step has just succeeded, and it presents the token that verify
\* returned (the last one the backend issued); a submission whose verify
\* step fails sends no upload request.
C29_UploadAfterVerifyWithItsToken ==
    /\ [][sbUploads' # sbUploads
            => /\ sbPc = "upload"
               /\ sbToken.upload_token = sbIssued
               /\ sbUploads' = Append(sbUploads, [kind |-> sbKind, token |-> sbIssued])]_vars
    /\ [][(sbPc = "verify" /\ sbPc' # "upload") => (sbPc' = "raised" /\ sbUploads' = sbUploads)]_vars
    /\ [][sbPc' = "upload" => (sbPc = "verify" /\ sbIssued' = sbIssued + 1
                               /\ sbToken'.upload_token = sbIssued')]_vars
    /\ [](Len(sbUploads) <= sbIssued)

C29_Witness ==
    /\ sbCalls = 3
    /\ sbIssued = 3
    /\ Len(sbUploads) = 2
    /\ sbUploads[1].token = 1
    /\ sbUploads[2].token = 3
    /\ sbPc = "returned"

(***************************************************************************)
(* Properties of the period classifier.                                    *)
(***************************************************************************)

\* C19: for an active tournament whose boundaries are all present and
\* non-decreasing (with or without a public-evaluation split) and every
\* clock reading, the classifier returns the period of the interval the
\* clock reading falls in by direct comparison with the boundaries.
C19_ConsistentWithBoundaries ==
    (/\ clPc # "call"
     /\ clTournament # NoTournament
     /\ clTournament.status \notin TerminalStatuses
     /\ Complete(clTournament)
     /\ clTournament.reward_start_time # NoTime)
        => (clPc = "returned" /\ clResult = IntervalOf(clTournament, clNow))

\* C20: the classifier returns NO_TOURNAMENT for an absent tournament and
\* COMPLETED for one whose status is done or cancelled, whatever the
\* timestamps (present or not) and the clock reading.
C20_AbsentAndTerminal ==
    clPc # "call"
        => /\ clTournament = NoTournament
                => (clPc = "returned" /\ clResult = "NO_TOURNAMENT")
           /\ (clTournament # NoTournament /\ clTournament.status \in {"done", "cancelled"})
                => (clPc = "returned" /\ clResult = "COMPLETED")

C20_Witness ==
    /\ clPc = "returned"
    /\ clTournament # NoTournament
    /\ clTournament.status = "cancelled"
    /\ clTournament.contest_start_time = NoTime
    /\ clTournament.reward_end_time = MaxTime
    /\ clNow = 1
    /\ clResult = "COMPLETED"

\* C21: for an active tournament with all mandatory boundaries and
\* evaluation_end <= now < reward_end, the classifier returns REWARD when a
\* reward start is configured and reached, and REVIEW otherwise (also when
\* no reward start is configured).
C21_ReviewUntilRewardStart ==
    (/\ clPc # "call"
     /\ clTournament # NoTournament
     /\ clTournament.status \notin {"done", "cancelled"}
     /\ Complete(clTournament)
     /\ clTournament.evaluation_end_time <= clNow
     /\ clNow < clTournament.reward_end_time)
        => /\ clPc = "returned"
           /\ clResult = (IF /\ clTournament.reward_start_time # NoTime
                             /\ clNow >= clTournament.reward_start_time
                          THEN "REWARD" ELSE "REVIEW")

\* C22: the classifier returns a period for every tournament and clock
\* reading; it never raises.
C22_ClassifierTotal == clPc # "raised"

\* C23: for a tournament without a public-evaluation split the classifier
\* never returns PUBLIC_EVALUATION or QUIET_ZONE, and for an active one
\* with contest_end <= now < evaluation_end it returns EVALUATION.
C23_NoSplitNoPublicPeriods ==
    (clPc # "call" /\ clTournament # NoTournament /\ ~HasPublicSplit(clTournament))
        => /\ clResult \notin {"PUBLIC_EVALUATION", "QUIET_ZONE"}
           /\ (/\ clTournament.status \notin {"done", "cancelled"}
               /\ Complete(clTournament)
               /\ clTournament.contest_end_time <= clNow
               /\ clNow < clTournament.evaluation_end_time)
                => (clPc = "returned" /\ clResult = "EVALUATION")

C23_Witness ==
    /\ clPc = "returned"
    /\ clTournament # NoTournament
    /\ clTournament.status = "active"
    /\ ~HasPublicSplit(clTournament)
    /\ Complete(clTournament)
    /\ clTournament.contest_end_time = 1
    /\ clNow = 1
    /\ clTournament.evaluation_end_time = 2
    /\ clResult = "EVALUATION"

(***************************************************************************)
(* Properties of the control loop.                                         *)
(***************************************************************************)

\* C4: the control loop never terminates on an error: an exception raised
\* inside an iteration (fetch, setup, evaluation, reward) puts the loop to
\* sleep for the error-backoff interval, and after that the next iteration
\* starts.
C4_LoopSurvivesErrors ==
    /\ [](mnPc # "terminated")
    /\ [][mnLastError' # mnLastError /\ mnLastError' # "none"
            => mnPc' = "sleep" /\ mnSleep' = ERROR_INTERVAL]_vars
    /\ (mnLastError # "none") ~> (mnPc = "fetch" /\ mnLastError = "none")

C4_Witness ==
    /\ mnPc = "sleep"
    /\ mnSleep = ERROR_INTERVAL
    /\ mnLastError = "SetupError"
    /\ mnPeriod = "EVALUATION"

\* C13: in the PUBLIC_EVALUATION and EVALUATION periods the evaluation loop
\* is entered only with setup complete for the tournament being handled;
\* setup is run first when it is not complete and is not run when it is;
\* an exception of the setup ends the iteration without entering the
\* evaluation loop.
C13_SetupBeforeEvaluation ==
    /\ [](mnPc = "evaluation"
            => (mnSetupComplete /\ mnCurrentTournamentId = mnTournament.id))
    /\ [][(mnPc = "handle" /\ mnPc' = "setup") => ~mnSetupComplete]_vars
    /\ [][(mnPc = "handle" /\ mnMode = "gpu"
              /\ mnPeriod \in {"PUBLIC_EVALUATION", "EVALUATION"})
            => mnPc' = (IF mnSetupComplete THEN "evaluation" ELSE "setup")]_vars
    /\ [][(mnPc = "setup" /\ mnLastError' # "none") => mnPc' = "sleep"]_vars

C13_Witness ==
    /\ mnPc = "evaluation"
    /\ mnPeriod = "PUBLIC_EVALUATION"
    /\ mnSetupComplete
    /\ mnCurrentTournamentId = "t2"
    /\ mnPrevId = "t1"

C15_QuietZoneForcesSetup ==
    /\ [](mnPc = "evaluation" => ~mnQuietPending)
    /\ [][(mnPc = "handle" /\ mnMode = "gpu" /\ mnPeriod = "QUIET_ZONE")
            => (~mnSetupComplete' /\ mnCurrentTournamentId' = NoId /\ mnPc' = "sleep")]_vars

C15_Witness ==
    /\ mnPc = "setup"
    /\ mnPeriod = "EVALUATION"
    /\ mnQuietPending
    /\ mnTaskConfig
    /\ mnPrevId = mnTournament.id

\* C16: when a fetch brings a tournament whose identity differs from the
\* one observed before, the setup-complete flag is false when the period is
\* handled; at the dispatch a true flag always belongs to the tournament
\* being handled.
C16_ResetOnTournamentChange ==
    /\ [][(mnPc = "fetch" /\ mnTournament' # NoTournament
              /\ LastSeenId # NoId /\ mnTournament'.id # LastSeenId)
            => ~mnSetupComplete']_vars
    /\ []((mnPc = "handle" /\ mnSetupComplete)
            => mnCurrentTournamentId = mnTournament.id)

C16_Witness ==
    /\ mnPc = "handle"
    /\ mnDidReset
    /\ mnPrevId = "t1"
    /\ mnTournament.id = "t2"
    /\ ~mnSetupComplete
    /\ mnCurrentTournamentId = NoId

\* C17: after a change of tournament the running totals count agents of
\* the new tournament only.
C17_StatsResetOnChange ==
    mnPc = "handle" => mnCounted \subseteq {mnTournament.id}

\* C18: an iteration that observes NO_TOURNAMENT (also by a fetch that
\* brings no tournament) or COMPLETED leaves the state reset: the
\* setup-complete flag false and the tournament identity cleared.
C18_ResetWhenIdle ==
    [][((mnPc = "fetch" /\ mnPc' = "sleep" /\ mnLastError' = "none")
          \/ (mnPc = "handle" /\ mnPeriod \in {"NO_TOURNAMENT", "COMPLETED"}))
        => (~mnSetupComplete' /\ mnCurrentTournamentId' = NoId)]_vars

IsTransport(input) == input.kind = "transport"

AllTransport(log, n) == \A i \in 1..n : IsTransport(log[i])

\* C8: a request that meets a transport error on every attempt up to
\* max_attempts - 1 is still retried, and when the final attempt succeeds
\* the request returns that response; no more than max_attempts (3)
\* attempts are ever made.
C8_RetryThenSuccess ==
    /\ Len(rqLog) <= max_attempts
    /\ (Len(rqLog) < max_attempts /\ Len(rqLog) >= 1 /\ AllTransport(rqLog, Len(rqLog)))
          => rqPc = "wait" \/ rqPc = "attempt"
    /\ (/\ Len(rqLog) = max_attempts
        /\ AllTransport(rqLog, max_attempts - 1)
        /\ RequestBody(rqLog[max_attempts], rqExpectJson) = "ok")
          => rqPc = "returned" /\ rqResult = rqLog[max_attempts]

C8_Witness ==
    /\ Len(rqLog) = max_attempts
    /\ AllTransport(rqLog, max_attempts - 1)
    /\ rqPc = "returned"
    /\ rqResult = rqLog[max_attempts]

\* C9: a request that meets a transport error on all attempts stops after
\* max_attempts attempts and surfaces the original transport error.
C9_ExhaustedSurfacesOriginal ==
    (rqPc = "raised" /\ AllTransport(rqLog, Len(rqLog)))
        => Len(rqLog) = max_attempts /\ rqResult = Raised("TransportError")

NotRetried == {400, 401, 403, 409, 422}

\* C10: an authentication (401/403), validation (400/422) or quiet-zone
\* (409) response ends the request at once: it is the only attempt made and
\* the matching error is what the caller gets.
C10_NoRetryOnClientErrors ==
    \A i \in 1..Len(rqLog) :
        (rqLog[i].kind = "response" /\ rqLog[i].status \in NotRetried)
            => /\ i = Len(rqLog)
               /\ rqPc = "raised"
               /\ rqResult = Raised(IF rqLog[i].status \in {401, 403} THEN "AuthenticationError"
                                     ELSE IF rqLog[i].status \in {400, 422} THEN "ValidationError"
                                     ELSE "QuietZoneError")
               /\ (i = 1 => rqWaits = <<>>)

C10_Witness ==
    /\ Len(rqLog) = 1
    /\ rqLog[1].kind = "response"
    /\ rqLog[1].status = 409
    /\ rqPc = "raised"
    /\ rqResult = Raised("QuietZoneError")

\* C26: an attempt that meets a response with a status of 400 or more
\* raises the error class of that status (401/403 AuthenticationError, 404
\* NotFoundError, 400/422 ValidationError, 409 QuietZoneError, 429
\* RateLimitError, anything else APIError), and the exception carries the
\* status code.
C26_StatusMapsToClass ==
    (/\ rqLog # <<>>
     /\ rqLog[Len(rqLog)].kind = "response"
     /\ rqLog[Len(rqLog)].status >= 400)
        => LET status == rqLog[Len(rqLog)].status
           IN  /\ rqAttemptExc.status_code = status
               /\ rqAttemptExc.class =
                     (IF status \in {401, 403} THEN "AuthenticationError"
                      ELSE IF status = 404 THEN "NotFoundError"
                      ELSE IF status \in {400, 422} THEN "ValidationError"
                      ELSE IF status = 409 THEN "QuietZoneError"
                      ELSE IF status = 429 THEN "RateLimitError"
                      ELSE "APIError")

\* C27: a 200 response without a JSON content type, on a call that expects
\* JSON, is not returned to the caller and is handled like a transport
\* error: while attempts remain the request goes on to the next attempt.
C27_NonJsonIsTransportError ==
    (/\ rqLog # <<>>
     /\ rqExpectJson
     /\ rqLog[Len(rqLog)].kind = "response"
     /\ rqLog[Len(rqLog)].status = 200
     /\ ~rqLog[Len(rqLog)].json)
        => /\ rqPc # "returned"
           /\ Len(rqLog) < max_attempts => rqPc \in {"wait", "attempt"}

\* C28: a 429 response met before the last attempt is followed by another
\* attempt, and when it carries a retry-after hint (in seconds) the wait
\* before that attempt is at least the hint.
C28_RateLimitHonorsHint ==
    \A i \in 1..Len(rqLog) :
        (/\ rqLog[i].kind = "response"
         /\ rqLog[i].status = 429
         /\ rqLog[i].retry_after # UnparsableRetryAfter
         /\ i < max_attempts)
            => /\ i < Len(rqLog) \/ rqPc \in {"wait", "attempt"}
               /\ Len(rqWaits) >= i
               /\ rqLog[i].retry_after # NoRetryAfter => rqWaits[i] >= rqLog[i].retry_after


\* C24: within one validator process at most one agent evaluation is in
\* flight at any time: no validator has two agents between the start of the
\* pipeline and the end of the cleanup, and a pipeline starts only when none
\* of the validator's own is in flight.  Nothing restricts what the other
\* validator does with the same agent at that time.
C24_OneInFlightPerValidator ==
    \A v \in Validators :
        /\ Cardinality(InFlight(v)) <= 1
        /\ flPc[v] \in {"fetch", "sleep", "loop", "delay"} => InFlight(v) = {}
        /\ flPc[v] = "await" => InFlight(v) = {flBatch[v][flIdx[v] - 1]}

\* Both validators are evaluating the same agent at once, each with that
\* one agent in flight.
C24_Witness ==
    \E a \in Agents :
        \A v \in Validators : flStage[v][a] = "pipeline" /\ InFlight(v) = {a}


\* C31: a result file missing after the engine exited successfully is a
\* fatal (non-recoverable) error: _collect_result leaves the pipeline with a
\* non-recoverable EvaluationError, and the orchestrator that receives it
\* neither reports a failed evaluation of the agent nor goes on with the
\* batch.
C31_MissingResultIsFatal ==
    [][/\ (evPc = "collect" /\ evFault' = "result_missing")
            => evErr' = EvaluationError(FALSE)
       /\ (evPc = "evaluate_done" /\ evFault = "result_missing"
            /\ evErr.class = "EvaluationError")
            => evPc' \notin {"submit_failed", "agent_delay", "agent_start"}]_vars

\* C32: a failure inside _cleanup is never re-raised: evaluate ends with the
\* outcome of the pipeline body (a normal return when no step failed, the
\* body's EvaluationError otherwise), and the cleanup actions after the
\* failing one have still run, so that only what the failing action itself
\* was to remove is left.
C32_CleanupFailureNotRaised ==
    (evPc = "evaluate_done" /\ evCleanupFault # "none") =>
        /\ evErr.class \in {"none", "EvaluationError"}
        /\ (evFault = "none" <=> evErr = NoError)
        /\ (evCleanupFault = "uninstall_raises" => fsFiles \subseteq {"module"})
        /\ (evCleanupFault = "remove_raises" => "module" \notin fsFiles)


\* C33: the stages of the per-agent pipeline run in the order
\* CLEAN_PREVIOUS, DOWNLOAD_EXTRACT, MARK_IN_PROGRESS, INSTALL, RUN, COLLECT,
\* SUBMIT, CLEANUP: a stage is entered only from the stage before it and
\* only when that one raised nothing, a stage that fails is followed by
\* CLEANUP and by no other stage, CLEANUP is followed by the end of
\* evaluate, and the in-progress marker is set only by MARK_IN_PROGRESS,
\* which is entered only after a successful download and extraction.
C33_StagesInOrder ==
    [][/\ \A pair \in {<<"clean_previous", "download">>, <<"download", "mark">>,
                       <<"mark", "install">>, <<"install", "run">>,
                       <<"run", "collect">>, <<"collect", "submit">>} :
            /\ (evPc' = pair[2] /\ evPc # pair[2])
                 => (evPc = pair[1] /\ evErr' = NoError /\ evFault' = "none")
            /\ (evPc = pair[1] /\ evPc' # pair[1])
                 => \/ evPc' = pair[2]
                    \/ evPc' = "cleanup" /\ evErr' # NoError /\ evFault' # "none"
       /\ (evPc' = "clean_previous" /\ evPc # "clean_previous") => evPc = "agent_start"
       /\ (evPc = "submit" /\ evPc' # "submit") => evPc' = "cleanup"
       /\ (evPc = "cleanup" /\ evPc' # "cleanup") => evPc' = "evaluate_done"
       /\ (beMarker' # beMarker /\ beMarker' # NoAgent)
            => (evPc = "mark" /\ "registry" \in fsFiles /\ beMarker' = evBatch[evIdx])]_vars

\* A pipeline whose every stage succeeded has reached CLEANUP with the
\* marker set and the result recorded.
C33_Witness ==
    /\ evPc = "cleanup"
    /\ evErr = NoError
    /\ beMarker = evBatch[evIdx]
    /\ Recorded(evBatch[evIdx]) \in beDone

\* A stage in the middle of the pipeline has failed and CLEANUP is next.
C33_WitnessFailure ==
    /\ evPc = "cleanup"
    /\ evFault = "install"
    /\ beMarker = evBatch[evIdx]


\* C34: the evaluation loop asks the period predicate again, with a fresh
\* fetch of the active tournament, before every pass: a pass begins only
\* from a check that answered true, which it does only for a fetched
\* tournament that is in the expected period; a pipeline is started only in
\* a pass whose check answered true; after a pass the loop goes on with the
\* next agent of the batch or with a new check; and once the predicate has
\* answered false the loop has ended and nothing more is started.
C34_PredicateRecheckedBetweenPasses ==
    [][/\ (evPc' = "fetch" /\ evPc # "fetch") => evPc = "loop_check"
       /\ (evPc = "loop_check" /\ evPc' # "loop_check") =>
            /\ evCheck'.answer = "true"
                 => (evPc' = "fetch" /\ evCheck'.source = "tournament" /\ evCheck'.in_period)
            /\ evCheck'.answer = "false"
                 => (evPc' = "loop_done" /\ evEnded' = "period_over")
            /\ (evCheck'.source \in {"tournament", "empty"} /\ ~evCheck'.in_period)
                 => evPc' = "loop_done"
       /\ evPc' = "agent_start" => (evCheck.answer = "true" /\ evCheck' = evCheck)
       /\ (evPc = "poll_sleep" /\ evPc' # "poll_sleep") => evPc' = "loop_check"
       /\ (evPc = "agent_delay" /\ evPc' # "agent_delay")
            => evPc' = (IF evIdx < Len(evBatch) THEN "agent_start" ELSE "loop_check")
       /\ evPc = "loop_done" => evPc' = "loop_done"]_vars

\* After a pass that evaluated an agent, the re-fetched tournament is no
\* longer in the expected period and the loop has returned.
C34_Witness ==
    /\ evPc = "loop_done"
    /\ evEnded = "period_over"
    /\ evCheck = [source |-> "tournament", answer |-> "false", in_period |-> FALSE]
    /\ evCounts.evaluated > 0

\* C40: when the re-fetch of the active tournament inside the period
\* predicate ends with an API error, get_active_tournament returns None, the
\* predicate answers false as it does when there is no tournament, and the
\* evaluation loop ends, also when the backend is still in the expected
\* evaluation period.
C40_ApiErrorEndsLoop ==
    [][(evPc = "loop_check" /\ evPc' # "loop_check" /\ evCheck'.source = "api_error")
         => /\ evCheck'.answer = "false"
            /\ evPc' = "loop_done"
            /\ evEnded' = "period_over"]_vars

\* The loop has ended on an API error of the re-fetch while the backend was
\* in the expected period, with agents evaluated before.
C40_Witness ==
    /\ evPc = "loop_done"
    /\ evEnded = "period_over"
    /\ evCheck = [source |-> "api_error", answer |-> "false", in_period |-> TRUE]
    /\ evPass > 0


\* C36: publishing the weight vector for a target makes at most
\* weight_setting_max_attempts publish calls for it and none after a
\* successful one; a failed attempt that is not the last is followed by a
\* wait, the first of weight_setting_initial_delay and each next one twice
\* the one before; no wait follows the last attempt.
C36_PublishBackoff ==
    LET primary == SelectSeq(rwPublishes, LAMBDA p : ~p.fallback)
        unsuccessful == SelectSeq(primary, LAMBDA p : p.outcome # "ok")
        attempts_allowed == rwConfig.weight_setting_max_attempts
    IN  /\ Len(primary) <= attempts_allowed
        /\ \A i \in 1..Len(primary) :
              /\ primary[i].uid = rwWinnerUid
              /\ primary[i].outcome = "ok" => i = Len(primary)
        /\ Len(rwSleeps) = (IF Len(unsuccessful) < attempts_allowed THEN Len(unsuccessful)
                            ELSE attempts_allowed - 1)
        /\ \A i \in 1..Len(rwSleeps) :
              rwSleeps[i] = (IF i = 1 THEN rwConfig.weight_setting_initial_delay
                             ELSE 2 * rwSleeps[i - 1])
        /\ rwPc = "retry_sleep" => Len(primary) < attempts_allowed

\* The third attempt has succeeded after two failed ones and two waits.
C36_Witness ==
    /\ Len(rwPublishes) = 3
    /\ rwPublishes[3].outcome = "ok"
    /\ ~rwPublishes[3].fallback
    /\ Len(rwSleeps) = 2


\* C35: in one batch the agents are processed in the order of the pending
\* list: the list changes only when it is fetched, the pipeline entered is
\* that of the agent at the loop's position, and the position moves by one.
\* An exception of an agent that is no quiet-zone conflict is counted as a
\* failure and leads to the delay between agents (through the failure report
\* for an EvaluationError, unless that report meets a quiet zone), after
\* which the next agent of the list, if any, is processed.
C35_BatchInOrderSurvivesFailures ==
    [][/\ evBatch' # evBatch => evPc = "fetch"
       /\ (evIdx' # evIdx /\ evPc # "fetch")
            => (evPc = "agent_delay" /\ evIdx' = evIdx + 1 /\ evPc' = "agent_start")
       /\ evPc \in PipelinePcs => (evIdx \in 1..Len(evBatch))
       /\ (evPc = "evaluate_done" /\ evErr # NoError /\ evErr.class # "QuietZoneError")
            => /\ evCounts' = [evCounts EXCEPT !.failed = @ + 1]
               /\ evPc' = (IF evErr.class = "EvaluationError" THEN "submit_failed"
                           ELSE "agent_delay")
       /\ (evPc = "submit_failed" /\ evPc' # "submit_failed")
            => \/ evPc' = "agent_delay"
               \/ evPc' = "loop_done" /\ evEnded' = "quiet_zone" /\ evQuiet'
       /\ (evPc = "agent_delay" /\ evPc' # "agent_delay" /\ evIdx < Len(evBatch))
            => (evPc' = "agent_start" /\ evIdx' = evIdx + 1)]_vars

\* The second agent of a batch is being evaluated after the first one was
\* counted as failed.
C35_Witness ==
    /\ evPc = "clean_previous"
    /\ evIdx = 2
    /\ evPass = 1
    /\ evCounts = [evaluated |-> 0, failed |-> 1]
    /\ Recorded(evBatch[1]) \in beDone


\* C37: whatever a step of the pipeline body raises, evaluate raises an
\* EvaluationError: the steps that raise API errors, timeouts and file
\* errors (clean-up of the previous state, download, mark-in-progress, the
\* engine's timeout, the submission) end as EvaluationError with recoverable
\* true, and, as long as _cleanup raises nothing itself, the orchestrator
\* receives from evaluate a normal return or an EvaluationError only.
C37_BodyExceptionsBecomeEvaluationError ==
    /\ (evPc \in {"cleanup", "evaluate_done"} /\ evFault # "none"
            /\ evCleanupFault \in {"none", "clear_fails"})
         => /\ evErr.class = "EvaluationError"
            /\ evFault \in {"clean_previous", "download", "mark", "run_timeout", "submit"}
                 => evErr = EvaluationError(TRUE)
    /\ (evPc = "evaluate_done" /\ evCleanupFault \in {"none", "clear_fails"})
         => evErr.class \in {"none", "EvaluationError"}

\* The engine's timeout has left evaluate as a recoverable EvaluationError.
C37_Witness ==
    /\ evPc = "evaluate_done"
    /\ evFault = "run_timeout"
    /\ evCleanupFault = "none"
    /\ evErr = EvaluationError(TRUE)


\* C38: when the main loop dispatches on the period, a true setup-complete
\* flag implies that the recorded tournament identity is set and is the
\* identity of the tournament being handled; the flag is never true without
\* a recorded identity, and it becomes true only in _run_setup, after
\* run_setup has succeeded, together with the identity of that tournament.
C38_SetupFlagMatchesTournament ==
    /\ []((mnPc = "handle" /\ mnSetupComplete)
            => /\ mnCurrentTournamentId # NoId
               /\ mnCurrentTournamentId = mnTournament.id)
    /\ [](mnSetupComplete => mnCurrentTournamentId # NoId)
    /\ [][(mnSetupComplete' /\ ~mnSetupComplete)
            => /\ mnPc = "setup"
               /\ mnLastError' \notin SetupErrors
               /\ mnCurrentTournamentId' = mnTournament.id]_vars

\* The loop dispatches again on the tournament whose setup was completed
\* in an earlier iteration.
C38_Witness ==
    /\ mnPc = "handle"
    /\ mnSetupComplete
    /\ mnCurrentTournamentId = mnTournament.id
    /\ mnPrevId = mnTournament.id
    /\ mnDidReset = FALSE


\* C39: every agent whose evaluate call has ended is counted in exactly one
\* of the two counters: the handling of the ended call adds one to the
\* evaluated count exactly when evaluate returned normally, which it does
\* only with the result recorded and _cleanup through, and one to the
\* failed count otherwise; no other step changes a counter; stats.total is
\* the number of evaluate calls that have ended and been handled.
C39_ExactlyOneCounterPerAgent ==
    /\ [](stats(evCounts).total
            = evFinished - (IF evPc = "evaluate_done" THEN 1 ELSE 0))
    /\ []((evPc = "evaluate_done" /\ evErr = NoError)
            => /\ Recorded(evBatch[evIdx]) \in beDone
               /\ evFault = "none"
               /\ evCleanupFault \in {"none", "clear_fails"})
    /\ [][IF evPc = "evaluate_done"
          THEN evCounts' = (IF evErr = NoError
                            THEN [evCounts EXCEPT !.evaluated = @ + 1]
                            ELSE [evCounts EXCEPT !.failed = @ + 1])
          ELSE evCounts' = evCounts]_vars

\* Two agents have been handled, one counted as evaluated and one as
\* failed.
C39_Witness ==
    /\ evCounts = [evaluated |-> 1, failed |-> 1]
    /\ evFinished = 2
    /\ evPc = "agent_delay"

====
